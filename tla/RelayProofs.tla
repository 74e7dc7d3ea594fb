----------------------------- MODULE RelayProofs -----------------------------
(***************************************************************************)
(* Theorems about the two users of a relay worker: RelayWorker for any     *)
(* number of commands, connections and reports, and WorkPlan for any       *)
(* replies of the model.                                                   *)
(***************************************************************************)
EXTENDS RelayWorker, WorkPlan, SelectionProofs, FiniteSetTheorems, SequenceTheorems,
        TLAPS

Executing ==
  {"ack", "busy", "running", "exec", "completed", "idle", "failed", "error"}
WorkerPc == Executing \cup
  {"off", "loop", "connect", "store", "greet", "hbSet", "hbSpawn", "hbFlag",
   "hbCheck", "hbJoin", "poll", "read", "take", "close", "down", "sleep", "ended"}
MainPc ==
  {"new", "up", "hbFlag", "hbCheck", "hbJoin", "outFlag", "outJoin", "take", "close",
   "join", "stopped"}
Legal ==
  {<<>>, <<"ack">>, <<"ack", "running">>, Whole("completed"), Whole("failed")}

\* Types, and which thread can be where.
TypeInv ==
  /\ DOMAIN at = {"worker", "main"} /\ DOMAIN ret = {"worker", "main"}
  /\ at["worker"] \in WorkerPc /\ at["main"] \in MainPc
  /\ ret["worker"] \in {"off", "hbSet", "take"} /\ ret["main"] \in {"off", "outFlag"}
  /\ at["worker"] \in {"hbFlag", "hbCheck", "hbJoin"} => ret["worker"] # "off"
  /\ at["main"] \in {"hbFlag", "hbCheck", "hbJoin"} => ret["main"] # "off"
  /\ link \in {"none", "open", "dying", "doomed", "broken", "closed"}
  /\ heard \in [Commands -> Legal]
  /\ inbox \in Seq(Commands) /\ dispatched \subseteq Commands
  /\ command \in Commands \cup {None}
  /\ at["worker"] \in Executing => command \in Commands
  /\ hb \in {"none", "wait", "send", "ended"}
  /\ joiner \in {"none", "worker", "main"}

\* While the worker runs, it alone joins the heartbeat threads, each before it
\* starts the next.
JoinInv ==
  /\ at["main"] = "new" => ~running /\ ~crashed /\ joiner = "none" /\ at["worker"] = "off"
  /\ running =>
       /\ ~crashed /\ at["main"] = "up"
       /\ joiner # "main" /\ (joiner = "worker" => at["worker"] = "hbJoin")
       /\ at["worker"] = "hbJoin" => hb # "none"
       /\ at["worker"] \in {"hbSet", "hbSpawn"} => hb = "none"

\* The inbox holds commands of this connection, each once, that the worker has
\* not begun.
InboxInv ==
  /\ \A i \in 1 .. Len(inbox) :
       /\ inbox[i] \in dispatched /\ heard[inbox[i]] = <<>>
       /\ at["worker"] \in Executing => inbox[i] # command
  /\ \A i, j \in 1 .. Len(inbox) : inbox[i] = inbox[j] => i = j

\* What the server has heard of the command in execution.
Stage(s) ==
  /\ at["worker"] = "ack" => s = <<>>
  /\ at["worker"] \in {"busy", "running"} => s = <<"ack">>
  /\ at["worker"] \in {"exec", "completed"} => s = <<"ack", "running">>
  /\ at["worker"] = "idle" => s = Whole("completed")
  /\ at["worker"] = "failed" => s = <<"ack", "running">> \/ ~session
  /\ at["worker"] = "error" => s = Whole("failed")

\* The worker waits for commands, or will without losing the connection first.
Listening ==
  \/ at["worker"] \in {"store", "greet", "hbSet", "hbSpawn", "poll", "read"}
  \/ at["worker"] \in {"hbFlag", "hbCheck", "hbJoin"} /\ ret["worker"] = "hbSet"

\* Whatever was sent on an open connection is settled, in the inbox or, one at a
\* time, in execution.
AnswerInv ==
  link = "open" =>
    /\ at["worker"] \in Executing => command \in dispatched /\ Stage(heard[command])
    /\ Listening \/ at["worker"] \in Executing =>
         \A c \in dispatched :
           \/ Settled(c) \/ Contains(inbox, c)
           \/ at["worker"] \in Executing /\ c = command

Inv == TypeInv /\ JoinInv /\ InboxInv /\ AnswerInv

Threads == {"worker", "main"}

----------------------------------------------------------------------------
(* Helpers *)

\* What Append and Tail do to the elements of a queue.
LEMMA QueueFacts ==
  ASSUME NEW S, NEW q \in Seq(S)
  PROVE  /\ \A e \in S : /\ Append(q, e) \in Seq(S)
                         /\ Len(Append(q, e)) = Len(q) + 1
                         /\ Append(q, e)[Len(q) + 1] = e
                         /\ \A i \in 1 .. Len(q) : Append(q, e)[i] = q[i]
         /\ q # <<>> => /\ Len(q) > 0
                        /\ Head(q) \in S /\ Head(q) = q[1]
                        /\ Tail(q) \in Seq(S)
                        /\ Len(Tail(q)) = Len(q) - 1
                        /\ \A i \in 1 .. Len(Tail(q)) : Tail(q)[i] = q[i + 1]
  OBVIOUS

\* Short sequences grow by one.
LEMMA ShortAppend ==
  ASSUME NEW S
  PROVE  \A a, b, e \in S :
           /\ Append(<<>>, e) = <<e>>
           /\ Append(<<a>>, e) = <<a, e>>
           /\ Append(<<a, b>>, e) = <<a, b, e>>
<1> TAKE a, b, e \in S
<1>1. /\ <<a>> \in Seq(S) /\ Len(<<a>>) = 1 /\ <<a, e>> \in Seq(S) /\ Len(<<a, e>>) = 2
      /\ <<a, b>> \in Seq(S) /\ Len(<<a, b>>) = 2
      /\ <<a, b, e>> \in Seq(S) /\ Len(<<a, b, e>>) = 3
  OBVIOUS
<1>2. /\ Append(<<a>>, e) \in Seq(S) /\ Len(Append(<<a>>, e)) = 2
      /\ \A i \in 1 .. 2 : Append(<<a>>, e)[i] = <<a, e>>[i]
  BY <1>1
<1>3. /\ Append(<<a, b>>, e) \in Seq(S) /\ Len(Append(<<a, b>>, e)) = 3
      /\ \A i \in 1 .. 3 : Append(<<a, b>>, e)[i] = <<a, b, e>>[i]
  BY <1>1
<1>4. Append(<<a>>, e) = <<a, e>>
  BY <1>1, <1>2, SeqEqual
<1>5. Append(<<a, b>>, e) = <<a, b, e>>
  BY <1>1, <1>3, SeqEqual
<1> QED
  BY <1>4, <1>5

\* A command is reported as acknowledged, running, and ended.
LEMMA Reports ==
  /\ Append(<<>>, "ack") = <<"ack">>
  /\ Append(<<"ack">>, "running") = <<"ack", "running">>
  /\ Append(<<"ack", "running">>, "completed") = Whole("completed")
  /\ Append(<<"ack", "running">>, "failed") = Whole("failed")
<1> DEFINE S == {"ack", "running", "completed", "failed"}
<1>1. "ack" \in S /\ "running" \in S /\ "completed" \in S /\ "failed" \in S
  OBVIOUS
<1> HIDE DEF S
<1> QED
  BY <1>1, ShortAppend DEF Whole

\* The stages of a report are different.
LEMMA StagesDiffer ==
  /\ <<>> \notin {Whole("completed"), Whole("failed")}
  /\ <<"ack">> \notin {Whole("completed"), Whole("failed")}
  /\ <<"ack", "running">> \notin {Whole("completed"), Whole("failed")}
BY DEF Whole

\* Every legal report is part of a whole one.
LEMMA LegalIsPrefix ==
  ASSUME NEW s \in Legal
  PROVE  \E end \in {"completed", "failed"} : IsPrefix(s, Whole(end))
<1>1. CASE s = <<>>
  BY <1>1 DEF IsPrefix, Whole
<1>3. CASE s = <<"ack">>
  BY <1>3 DEF IsPrefix, Whole
<1>4. CASE s = <<"ack", "running">>
  BY <1>4 DEF IsPrefix, Whole
<1>5. CASE s = Whole("completed")
  BY <1>5 DEF IsPrefix, Whole
<1>2. s = Whole("failed") => IsPrefix(s, Whole("failed"))
  BY DEF IsPrefix, Whole
<1> QED
  BY <1>1, <1>2, <1>3, <1>4, <1>5 DEF Legal

----------------------------------------------------------------------------
\* Every step keeps the types.
LEMMA TypeStep == TypeInv /\ AnswerInv /\ [Next]_vars => TypeInv'
<1> SUFFICES ASSUME TypeInv, AnswerInv, [Next]_vars PROVE TypeInv'
  OBVIOUS
<1> USE RelayAssumption
    DEF TypeInv, Executing, WorkerPc, MainPc, Threads, linkVars, serverVars, hbVars, outVars
<1>1. CASE Start
  BY <1>1 DEF Start
<1>2. CASE Stop
  BY <1>2 DEF Stop, Call, GoTo
<1>3. CASE StopOutboundWriter
  BY <1>3 DEF StopOutboundWriter, GoTo
<1>4. CASE JoinWriter
  BY <1>4 DEF JoinWriter, GoTo
<1>5. CASE JoinWorker
  BY <1>5 DEF JoinWorker, GoTo
<1>6. ASSUME NEW x \in Threads, HeartbeatFlag(x) PROVE TypeInv'
  BY <1>6 DEF HeartbeatFlag, GoTo
<1>7. ASSUME NEW x \in Threads, HeartbeatJoinable(x) PROVE TypeInv'
  BY <1>7 DEF HeartbeatJoinable, GoTo
<1>8. ASSUME NEW x \in Threads, HeartbeatJoin(x) PROVE TypeInv'
  BY <1>8 DEF HeartbeatJoin
<1>9. ASSUME NEW x \in Threads, HeartbeatJoined(x) PROVE TypeInv'
  BY <1>9 DEF HeartbeatJoined, GoTo
<1>10. ASSUME NEW x \in Threads, TakeSession(x) PROVE TypeInv'
  BY <1>10 DEF TakeSession, GoTo, AfterClose
<1>11. ASSUME NEW x \in Threads, CloseTaken(x) PROVE TypeInv'
  BY <1>11 DEF CloseTaken, GoTo, AfterClose
<1>12. CASE RunLoop
  BY <1>12 DEF RunLoop, GoTo
<1>13. CASE Connected
  BY <1>13 DEF Connected, GoTo
<1>14. CASE NotConnected
  BY <1>14 DEF NotConnected, Throw, Call, GoTo
<1>15. CASE StoreSession
  BY <1>15 DEF StoreSession, GoTo
<1>16. CASE HeartbeatStarts
  BY <1>16 DEF HeartbeatStarts, GoTo
<1>17. CASE HeartbeatSpawn
  BY <1>17 DEF HeartbeatSpawn, GoTo
<1>18. CASE Poll
  BY <1>18 DEF Poll, Throw, Call, GoTo
<1>19. CASE ReadFails
  BY <1>19 DEF ReadFails, Throw, Call, GoTo
<1>20. CASE ReadCommand
  BY <1>20 DEF ReadCommand, GoTo
<1>21. CASE Greet
  BY <1>21 DEF Greet, SendThrows, Throw, Call, GoTo, Written, CanSend
<1>22. CASE Ack
  <2>1. CASE SendOk("ack", "ack", "busy")
    <3>1. /\ command \in Commands /\ heard[command] \in Legal
          /\ link = "open" => heard[command] = <<>>
      BY <1>22, <2>1 DEF SendOk, AnswerInv, Stage, CanSend
    <3>2. \/ heard' = heard
          \/ link = "open" /\ heard' = [heard EXCEPT ![command] = Append(<<>>, "ack")]
      BY <2>1, <3>1 DEF SendOk
    <3>3. heard' \in [Commands -> Legal]
      BY <3>1, <3>2, Reports DEF Legal
    <3> QED
      BY <2>1, <3>3 DEF SendOk, Written
  <2>2. CASE SendThrows("ack", FALSE)
    BY <2>2 DEF SendThrows, Throw, Call, GoTo
  <2> QED
    BY <1>22, <2>1, <2>2 DEF Ack
<1>23. CASE Busy
  BY <1>23 DEF Busy, SendOk, SendThrows, Throw, Call, GoTo, Written, CanSend
<1>24. CASE Running
  <2>1. CASE SendOk("running", "running", "exec")
    <3>1. /\ command \in Commands /\ heard[command] \in Legal
          /\ link = "open" => heard[command] = <<"ack">>
      BY <1>24, <2>1 DEF SendOk, AnswerInv, Stage, CanSend
    <3>2. \/ heard' = heard
          \/ link = "open" /\ heard' = [heard EXCEPT ![command] = Append(<<"ack">>, "running")]
      BY <2>1, <3>1 DEF SendOk
    <3>3. heard' \in [Commands -> Legal]
      BY <3>1, <3>2, Reports DEF Legal
    <3> QED
      BY <2>1, <3>3 DEF SendOk, Written
  <2>2. CASE SendThrows("running", FALSE)
    BY <2>2 DEF SendThrows, Throw, Call, GoTo
  <2> QED
    BY <1>24, <2>1, <2>2 DEF Running
<1>25. CASE ExecReports
  BY <1>25 DEF ExecReports, SendOk, SendThrows, Throw, Call, GoTo, Written, CanSend
<1>26. CASE Completed
  <2>1. CASE SendOk("completed", "completed", "idle")
    <3>1. /\ command \in Commands /\ heard[command] \in Legal
          /\ link = "open" => heard[command] = <<"ack", "running">>
      BY <1>26, <2>1 DEF SendOk, AnswerInv, Stage, CanSend
    <3>2. \/ heard' = heard
          \/ link = "open" /\ heard' = [heard EXCEPT ![command] = Append(<<"ack", "running">>, "completed")]
      BY <2>1, <3>1 DEF SendOk
    <3>3. heard' \in [Commands -> Legal]
      BY <3>1, <3>2, Reports DEF Legal
    <3> QED
      BY <2>1, <3>3 DEF SendOk, Written
  <2>2. CASE SendThrows("completed", TRUE)
    BY <2>2 DEF SendThrows, Throw, Call, GoTo
  <2> QED
    BY <1>26, <2>1, <2>2 DEF Completed
<1>27. CASE Idle
  BY <1>27 DEF Idle, SendOk, SendThrows, Throw, Call, GoTo, Written, CanSend
<1>28. CASE Failed
  <2>1. CASE SendOk("failed", "failed", "error")
    <3>1. /\ command \in Commands /\ heard[command] \in Legal
          /\ link = "open" => heard[command] = <<"ack", "running">>
      BY <1>28, <2>1 DEF SendOk, AnswerInv, Stage, CanSend
    <3>2. \/ heard' = heard
          \/ link = "open" /\ heard' = [heard EXCEPT ![command] = Append(<<"ack", "running">>, "failed")]
      BY <2>1, <3>1 DEF SendOk
    <3>3. heard' \in [Commands -> Legal]
      BY <3>1, <3>2, Reports DEF Legal
    <3> QED
      BY <2>1, <3>3 DEF SendOk, Written
  <2>2. CASE SendThrows("failed", FALSE)
    BY <2>2 DEF SendThrows, Throw, Call, GoTo
  <2> QED
    BY <1>28, <2>1, <2>2 DEF Failed
<1>29. CASE ErrorShown
  BY <1>29 DEF ErrorShown, SendOk, SendThrows, Throw, Call, GoTo, Written, CanSend
<1>30. CASE ExecReturns
  BY <1>30 DEF ExecReturns, GoTo
<1>31. CASE PauseOrEnd
  BY <1>31 DEF PauseOrEnd, GoTo
<1>32. CASE Reconnect
  BY <1>32 DEF Reconnect, GoTo
<1>33. CASE HeartbeatEnds
  BY <1>33 DEF HeartbeatEnds
<1>34. CASE HeartbeatDue
  BY <1>34 DEF HeartbeatDue
<1>35. CASE HeartbeatSends
  BY <1>35 DEF HeartbeatSends, CanSend, Written
<1>36. CASE Report
  BY <1>36 DEF Report
<1>37. CASE WriterTakes
  BY <1>37 DEF WriterTakes
<1>38. CASE WriterSends
  BY <1>38 DEF WriterSends, CanSend, Written
<1>39. CASE WriterEnds
  BY <1>39 DEF WriterEnds
<1>40. ASSUME NEW c \in Commands, Dispatch(c) PROVE TypeInv'
  <2>1. inbox' \in Seq(Commands) /\ dispatched' \subseteq Commands
    BY <1>40, QueueFacts DEF Dispatch
  <2>2. heard' \in [Commands -> Legal]
    BY <1>40 DEF Dispatch, Legal
  <2> QED
    BY <1>40, <2>1, <2>2 DEF Dispatch
<1>41. CASE PeerGone
  BY <1>41 DEF PeerGone
<1>42. CASE Reset
  BY <1>42 DEF Reset
<1>43. CASE UNCHANGED vars
  BY <1>43 DEF vars
<1> QED
  BY <1>1, <1>2, <1>3, <1>4, <1>5, <1>6, <1>7, <1>8, <1>9, <1>10, <1>11, <1>12, 
     <1>13, <1>14, <1>15, <1>16, <1>17, <1>18, <1>19, <1>20, <1>21, <1>22, <1>23, 
     <1>24, <1>25, <1>26, <1>27, <1>28, <1>29, <1>30, <1>31, <1>32, <1>33, <1>34, 
     <1>35, <1>36, <1>37, <1>38, <1>39, <1>40, <1>41, <1>42, <1>43
  DEF Next, Step, MainStep, WorkerStep, HeartbeatStep, WriterStep, StopHeartbeat,
      CloseSession, GiveUp, Threads

\* Every step of a running worker keeps its heartbeat threads apart.
LEMMA JoinStep == TypeInv /\ JoinInv /\ [Next]_vars => JoinInv'
<1> SUFFICES ASSUME TypeInv, JoinInv, [Next]_vars PROVE JoinInv'
  OBVIOUS
<1> USE DEF TypeInv, JoinInv, Executing, WorkerPc, MainPc, Threads, linkVars, serverVars,
        hbVars, outVars
<1>1. CASE Start
  <2>1. at'["main"] = "up" /\ at'["worker"] = "loop" /\ joiner' = "none" /\ ~crashed'
    BY <1>1 DEF Start
  <2> QED
    BY <2>1
<1>2. CASE Stop
  BY <1>2 DEF Stop, Call, GoTo
<1>3. CASE StopOutboundWriter
  BY <1>3 DEF StopOutboundWriter, GoTo
<1>4. CASE JoinWriter
  BY <1>4 DEF JoinWriter, GoTo
<1>5. CASE JoinWorker
  BY <1>5 DEF JoinWorker, GoTo
<1>6. ASSUME NEW x \in Threads, HeartbeatFlag(x) PROVE JoinInv'
  BY <1>6 DEF HeartbeatFlag, GoTo
<1>7. ASSUME NEW x \in Threads, HeartbeatJoinable(x) PROVE JoinInv'
  BY <1>7 DEF HeartbeatJoinable, GoTo
<1>8. ASSUME NEW x \in Threads, HeartbeatJoin(x) PROVE JoinInv'
  BY <1>8 DEF HeartbeatJoin
<1>9. ASSUME NEW x \in Threads, HeartbeatJoined(x) PROVE JoinInv'
  BY <1>9 DEF HeartbeatJoined, GoTo
<1>10. ASSUME NEW x \in Threads, TakeSession(x) PROVE JoinInv'
  BY <1>10 DEF TakeSession, GoTo, AfterClose
<1>11. ASSUME NEW x \in Threads, CloseTaken(x) PROVE JoinInv'
  BY <1>11 DEF CloseTaken, GoTo, AfterClose
<1>12. CASE RunLoop
  BY <1>12 DEF RunLoop, GoTo
<1>13. CASE Connected
  BY <1>13 DEF Connected, GoTo
<1>14. CASE NotConnected
  BY <1>14 DEF NotConnected, Throw, Call, GoTo
<1>15. CASE StoreSession
  BY <1>15 DEF StoreSession, GoTo
<1>16. CASE HeartbeatStarts
  BY <1>16 DEF HeartbeatStarts, GoTo
<1>17. CASE HeartbeatSpawn
  BY <1>17 DEF HeartbeatSpawn, GoTo
<1>18. CASE Poll
  BY <1>18 DEF Poll, Throw, Call, GoTo
<1>19. CASE ReadFails
  BY <1>19 DEF ReadFails, Throw, Call, GoTo
<1>20. CASE ReadCommand
  BY <1>20 DEF ReadCommand, GoTo
<1>21. CASE Greet
  BY <1>21 DEF Greet, SendThrows, Throw, Call, GoTo, Written, CanSend
<1>22. CASE Ack
  BY <1>22 DEF Ack, SendOk, SendThrows, Throw, Call, GoTo, Written, CanSend
<1>23. CASE Busy
  BY <1>23 DEF Busy, SendOk, SendThrows, Throw, Call, GoTo, Written, CanSend
<1>24. CASE Running
  BY <1>24 DEF Running, SendOk, SendThrows, Throw, Call, GoTo, Written, CanSend
<1>25. CASE ExecReports
  BY <1>25 DEF ExecReports, SendOk, SendThrows, Throw, Call, GoTo, Written, CanSend
<1>26. CASE Completed
  BY <1>26 DEF Completed, SendOk, SendThrows, Throw, Call, GoTo, Written, CanSend
<1>27. CASE Idle
  BY <1>27 DEF Idle, SendOk, SendThrows, Throw, Call, GoTo, Written, CanSend
<1>28. CASE Failed
  BY <1>28 DEF Failed, SendOk, SendThrows, Throw, Call, GoTo, Written, CanSend
<1>29. CASE ErrorShown
  BY <1>29 DEF ErrorShown, SendOk, SendThrows, Throw, Call, GoTo, Written, CanSend
<1>30. CASE ExecReturns
  BY <1>30 DEF ExecReturns, GoTo
<1>31. CASE PauseOrEnd
  BY <1>31 DEF PauseOrEnd, GoTo
<1>32. CASE Reconnect
  BY <1>32 DEF Reconnect, GoTo
<1>33. CASE HeartbeatEnds
  BY <1>33 DEF HeartbeatEnds
<1>34. CASE HeartbeatDue
  BY <1>34 DEF HeartbeatDue
<1>35. CASE HeartbeatSends
  BY <1>35 DEF HeartbeatSends, CanSend, Written
<1>36. CASE Report
  BY <1>36 DEF Report
<1>37. CASE WriterTakes
  BY <1>37 DEF WriterTakes
<1>38. CASE WriterSends
  BY <1>38 DEF WriterSends, CanSend, Written
<1>39. CASE WriterEnds
  BY <1>39 DEF WriterEnds
<1>40. ASSUME NEW c \in Commands, Dispatch(c) PROVE JoinInv'
  BY <1>40 DEF Dispatch
<1>41. CASE PeerGone
  BY <1>41 DEF PeerGone
<1>42. CASE Reset
  BY <1>42 DEF Reset
<1>43. CASE UNCHANGED vars
  BY <1>43 DEF vars
<1> QED
  BY <1>1, <1>2, <1>3, <1>4, <1>5, <1>6, <1>7, <1>8, <1>9, <1>10, <1>11, <1>12, 
     <1>13, <1>14, <1>15, <1>16, <1>17, <1>18, <1>19, <1>20, <1>21, <1>22, <1>23, 
     <1>24, <1>25, <1>26, <1>27, <1>28, <1>29, <1>30, <1>31, <1>32, <1>33, <1>34, 
     <1>35, <1>36, <1>37, <1>38, <1>39, <1>40, <1>41, <1>42, <1>43
  DEF Next, Step, MainStep, WorkerStep, HeartbeatStep, WriterStep, StopHeartbeat,
      CloseSession, GiveUp, Threads

\* Every step keeps what is in the inbox.
LEMMA InboxStep == TypeInv /\ InboxInv /\ AnswerInv /\ [Next]_vars => InboxInv'
<1> SUFFICES ASSUME TypeInv, InboxInv, AnswerInv, [Next]_vars PROVE InboxInv'
  OBVIOUS
<1> USE DEF TypeInv, InboxInv, Executing, Threads, linkVars, serverVars, hbVars, outVars
<1>1. CASE Start
  BY <1>1 DEF Start
<1>2. CASE Stop
  BY <1>2 DEF Stop, Call, GoTo
<1>3. CASE StopOutboundWriter
  BY <1>3 DEF StopOutboundWriter, GoTo
<1>4. CASE JoinWriter
  BY <1>4 DEF JoinWriter, GoTo
<1>5. CASE JoinWorker
  BY <1>5 DEF JoinWorker, GoTo
<1>6. ASSUME NEW x \in Threads, HeartbeatFlag(x) PROVE InboxInv'
  BY <1>6 DEF HeartbeatFlag, GoTo
<1>7. ASSUME NEW x \in Threads, HeartbeatJoinable(x) PROVE InboxInv'
  BY <1>7 DEF HeartbeatJoinable, GoTo
<1>8. ASSUME NEW x \in Threads, HeartbeatJoin(x) PROVE InboxInv'
  BY <1>8 DEF HeartbeatJoin
<1>9. ASSUME NEW x \in Threads, HeartbeatJoined(x) PROVE InboxInv'
  BY <1>9 DEF HeartbeatJoined, GoTo
<1>10. ASSUME NEW x \in Threads, TakeSession(x) PROVE InboxInv'
  BY <1>10 DEF TakeSession, GoTo, AfterClose
<1>11. ASSUME NEW x \in Threads, CloseTaken(x) PROVE InboxInv'
  BY <1>11 DEF CloseTaken, GoTo, AfterClose
<1>12. CASE RunLoop
  BY <1>12 DEF RunLoop, GoTo
<1>13. CASE Connected
  BY <1>13 DEF Connected, GoTo
<1>14. CASE NotConnected
  BY <1>14 DEF NotConnected, Throw, Call, GoTo
<1>15. CASE StoreSession
  BY <1>15 DEF StoreSession, GoTo
<1>16. CASE HeartbeatStarts
  BY <1>16 DEF HeartbeatStarts, GoTo
<1>17. CASE HeartbeatSpawn
  BY <1>17 DEF HeartbeatSpawn, GoTo
<1>18. CASE Poll
  BY <1>18 DEF Poll, Throw, Call, GoTo
<1>19. CASE ReadFails
  BY <1>19 DEF ReadFails, Throw, Call, GoTo
<1>20. CASE ReadCommand
  BY <1>20 DEF ReadCommand, GoTo
<1>21. CASE Greet
  BY <1>21 DEF Greet, SendThrows, Throw, Call, GoTo, Written, CanSend
<1>22. CASE Ack
  BY <1>22 DEF Ack, SendOk, SendThrows, Throw, Call, GoTo, Written, CanSend
<1>23. CASE Busy
  BY <1>23 DEF Busy, SendOk, SendThrows, Throw, Call, GoTo, Written, CanSend
<1>24. CASE Running
  BY <1>24 DEF Running, SendOk, SendThrows, Throw, Call, GoTo, Written, CanSend
<1>25. CASE ExecReports
  BY <1>25 DEF ExecReports, SendOk, SendThrows, Throw, Call, GoTo, Written, CanSend
<1>26. CASE Completed
  BY <1>26 DEF Completed, SendOk, SendThrows, Throw, Call, GoTo, Written, CanSend
<1>27. CASE Idle
  BY <1>27 DEF Idle, SendOk, SendThrows, Throw, Call, GoTo, Written, CanSend
<1>28. CASE Failed
  BY <1>28 DEF Failed, SendOk, SendThrows, Throw, Call, GoTo, Written, CanSend
<1>29. CASE ErrorShown
  BY <1>29 DEF ErrorShown, SendOk, SendThrows, Throw, Call, GoTo, Written, CanSend
<1>30. CASE ExecReturns
  BY <1>30 DEF ExecReturns, GoTo
<1>31. CASE PauseOrEnd
  BY <1>31 DEF PauseOrEnd, GoTo
<1>32. CASE Reconnect
  BY <1>32 DEF Reconnect, GoTo
<1>33. CASE HeartbeatEnds
  BY <1>33 DEF HeartbeatEnds
<1>34. CASE HeartbeatDue
  BY <1>34 DEF HeartbeatDue
<1>35. CASE HeartbeatSends
  BY <1>35 DEF HeartbeatSends, CanSend, Written
<1>36. CASE Report
  BY <1>36 DEF Report
<1>37. CASE WriterTakes
  BY <1>37 DEF WriterTakes
<1>38. CASE WriterSends
  BY <1>38 DEF WriterSends, CanSend, Written
<1>39. CASE WriterEnds
  BY <1>39 DEF WriterEnds
<1>40. ASSUME NEW c \in Commands, Dispatch(c) PROVE InboxInv'
  <2>1. /\ Len(inbox') = Len(inbox) + 1 /\ inbox'[Len(inbox) + 1] = c
        /\ \A i \in 1 .. Len(inbox) : inbox'[i] = inbox[i]
    BY <1>40, QueueFacts DEF Dispatch
  <2>2. \A i \in 1 .. Len(inbox) : inbox[i] # c
    BY <1>40 DEF Dispatch
  <2>3. heard'[c] = <<>> /\ \A i \in 1 .. Len(inbox) : heard'[inbox[i]] = <<>>
    BY <1>40, <2>2 DEF Dispatch
  <2>4. at["worker"] \in Executing => c # command
    BY <1>40 DEF Dispatch, AnswerInv
  <2> QED
    BY <1>40, <2>1, <2>2, <2>3, <2>4 DEF Dispatch
<1>41. CASE PeerGone
  BY <1>41 DEF PeerGone
<1>42. CASE Reset
  BY <1>42 DEF Reset
<1>43. CASE UNCHANGED vars
  BY <1>43 DEF vars
<1> QED
  BY <1>1, <1>2, <1>3, <1>4, <1>5, <1>6, <1>7, <1>8, <1>9, <1>10, <1>11, <1>12, 
     <1>13, <1>14, <1>15, <1>16, <1>17, <1>18, <1>19, <1>20, <1>21, <1>22, <1>23, 
     <1>24, <1>25, <1>26, <1>27, <1>28, <1>29, <1>30, <1>31, <1>32, <1>33, <1>34, 
     <1>35, <1>36, <1>37, <1>38, <1>39, <1>40, <1>41, <1>42, <1>43
  DEF Next, Step, MainStep, WorkerStep, HeartbeatStep, WriterStep, StopHeartbeat,
      CloseSession, GiveUp, Threads

\* Every step keeps each command of an open connection in its place.
LEMMA AnswerStep ==
  TypeInv /\ TypeInv' /\ InboxInv /\ AnswerInv /\ [Next]_vars => AnswerInv'
<1> SUFFICES ASSUME TypeInv, TypeInv', InboxInv, AnswerInv, [Next]_vars PROVE AnswerInv'
  OBVIOUS
<1> USE DEF TypeInv, AnswerInv, Stage, Listening, Executing, Threads, Settled, linkVars,
        serverVars, hbVars, outVars
<1>1. CASE Start
  BY <1>1 DEF Start
<1>2. CASE Stop
  BY <1>2 DEF Stop, Call, GoTo
<1>3. CASE StopOutboundWriter
  BY <1>3 DEF StopOutboundWriter, GoTo
<1>4. CASE JoinWriter
  BY <1>4 DEF JoinWriter, GoTo
<1>5. CASE JoinWorker
  BY <1>5 DEF JoinWorker, GoTo
<1>6. ASSUME NEW x \in Threads, HeartbeatFlag(x) PROVE AnswerInv'
  BY <1>6 DEF HeartbeatFlag, GoTo
<1>7. ASSUME NEW x \in Threads, HeartbeatJoinable(x) PROVE AnswerInv'
  BY <1>7 DEF HeartbeatJoinable, GoTo
<1>8. ASSUME NEW x \in Threads, HeartbeatJoin(x) PROVE AnswerInv'
  BY <1>8 DEF HeartbeatJoin
<1>9. ASSUME NEW x \in Threads, HeartbeatJoined(x) PROVE AnswerInv'
  BY <1>9 DEF HeartbeatJoined, GoTo
<1>10. ASSUME NEW x \in Threads, TakeSession(x) PROVE AnswerInv'
  BY <1>10 DEF TakeSession, GoTo, AfterClose
<1>11. ASSUME NEW x \in Threads, CloseTaken(x) PROVE AnswerInv'
  BY <1>11 DEF CloseTaken, GoTo, AfterClose
<1>12. CASE RunLoop
  BY <1>12 DEF RunLoop, GoTo
<1>13. CASE Connected
  BY <1>13 DEF Connected, GoTo
<1>14. CASE NotConnected
  BY <1>14 DEF NotConnected, Throw, Call, GoTo
<1>15. CASE StoreSession
  BY <1>15 DEF StoreSession, GoTo
<1>16. CASE HeartbeatStarts
  BY <1>16 DEF HeartbeatStarts, GoTo
<1>17. CASE HeartbeatSpawn
  BY <1>17 DEF HeartbeatSpawn, GoTo
<1>18. CASE Poll
  BY <1>18 DEF Poll, Throw, Call, GoTo
<1>19. CASE ReadFails
  BY <1>19 DEF ReadFails, Throw, Call, GoTo
<1>20. CASE ReadCommand
  <2>1. /\ Head(inbox) = inbox[1] /\ inbox[1] \in Commands /\ Len(inbox) > 0
        /\ Len(inbox') = Len(inbox) - 1
        /\ \A i \in 1 .. Len(inbox') : inbox'[i] = inbox[i + 1]
    BY <1>20, QueueFacts DEF ReadCommand
  <2>2. /\ command' = inbox[1] /\ at'["worker"] = "ack"
        /\ UNCHANGED <<link, dispatched, heard>> /\ at["worker"] = "read"
    BY <1>20, <2>1 DEF ReadCommand, GoTo
  <2>3. command' \in dispatched /\ heard[command'] = <<>>
    BY <2>1, <2>2 DEF InboxInv
  <2>4. ASSUME NEW c \in dispatched, Contains(inbox, c), c # command'
        PROVE  Contains(inbox', c)
    <3>1. PICK i \in 1 .. Len(inbox) : inbox[i] = c
      BY <2>4 DEF Contains
    <3>2. i # 1 /\ i - 1 \in 1 .. Len(inbox') /\ inbox'[i - 1] = c
      BY <2>1, <2>2, <2>4, <3>1
    <3> QED
      BY <3>2 DEF Contains
  <2> QED
    BY <2>2, <2>3, <2>4
<1>21. CASE Greet
  BY <1>21 DEF Greet, SendThrows, Throw, Call, GoTo, Written, CanSend
<1>22. CASE Ack
  BY <1>22 DEF Ack, SendOk, SendThrows, Throw, Call, GoTo, Written, CanSend
<1>23. CASE Busy
  BY <1>23 DEF Busy, SendOk, SendThrows, Throw, Call, GoTo, Written, CanSend
<1>24. CASE Running
  <2>1. CASE SendOk("running", "running", "exec") /\ link' = "open"
    <3>1. /\ at["worker"] = "running" /\ at'["worker"] = "exec" /\ link = "open"
          /\ session = TRUE
          /\ UNCHANGED <<command, inbox, dispatched>>
      BY <2>1 DEF SendOk, Written, CanSend
    <3>2. /\ command \in Commands /\ command \in dispatched
          /\ heard[command] = <<"ack">>
      BY <3>1
    <3>3. heard' = [heard EXCEPT ![command] = <<"ack", "running">>]
      BY <2>1, <3>1, <3>2, Reports DEF SendOk
    <3>4. heard'[command] = <<"ack", "running">> /\ \A c \in Commands \ {command} : heard'[c] = heard[c]
      BY <3>2, <3>3
    <3> QED
      BY <3>1, <3>2, <3>4
  <2>2. CASE SendThrows("running", FALSE)
    BY <2>2 DEF SendThrows, Throw, Call, GoTo, CanSend
  <2> QED
    BY <1>24, <2>1, <2>2 DEF Running
<1>25. CASE ExecReports
  BY <1>25 DEF ExecReports, SendOk, SendThrows, Throw, Call, GoTo, Written, CanSend
<1>26. CASE Completed
  <2>1. CASE SendOk("completed", "completed", "idle") /\ link' = "open"
    <3>1. /\ at["worker"] = "completed" /\ at'["worker"] = "idle" /\ link = "open"
          /\ session = TRUE
          /\ UNCHANGED <<command, inbox, dispatched>>
      BY <2>1 DEF SendOk, Written, CanSend
    <3>2. /\ command \in Commands /\ command \in dispatched
          /\ heard[command] = <<"ack", "running">>
      BY <3>1
    <3>3. heard' = [heard EXCEPT ![command] = Whole("completed")]
      BY <2>1, <3>1, <3>2, Reports DEF SendOk
    <3>4. heard'[command] = Whole("completed") /\ \A c \in Commands \ {command} : heard'[c] = heard[c]
      BY <3>2, <3>3
    <3> QED
      BY <3>1, <3>2, <3>4
  <2>2. CASE SendThrows("completed", TRUE)
    BY <2>2 DEF SendThrows, Throw, Call, GoTo, CanSend
  <2> QED
    BY <1>26, <2>1, <2>2 DEF Completed
<1>27. CASE Idle
  <2>1. CASE SendOk("idle", "", "poll")
    BY <2>1 DEF SendOk, Written, CanSend
  <2>2. CASE SendThrows("idle", TRUE)
    BY <2>2 DEF SendThrows, GoTo, CanSend, Dead
  <2> QED
    BY <1>27, <2>1, <2>2 DEF Idle
<1>28. CASE Failed
  <2>1. CASE SendOk("failed", "failed", "error") /\ link' = "open"
    <3>1. /\ at["worker"] = "failed" /\ at'["worker"] = "error" /\ link = "open"
          /\ session = TRUE
          /\ UNCHANGED <<command, inbox, dispatched>>
      BY <2>1 DEF SendOk, Written, CanSend
    <3>2. /\ command \in Commands /\ command \in dispatched
          /\ heard[command] = <<"ack", "running">>
      BY <3>1
    <3>3. heard' = [heard EXCEPT ![command] = Whole("failed")]
      BY <2>1, <3>1, <3>2, Reports DEF SendOk
    <3>4. heard'[command] = Whole("failed") /\ \A c \in Commands \ {command} : heard'[c] = heard[c]
      BY <3>2, <3>3
    <3> QED
      BY <3>1, <3>2, <3>4
  <2>2. CASE SendThrows("failed", FALSE)
    BY <2>2 DEF SendThrows, Throw, Call, GoTo, CanSend
  <2> QED
    BY <1>28, <2>1, <2>2 DEF Failed
<1>29. CASE ErrorShown
  BY <1>29 DEF ErrorShown, SendOk, SendThrows, Throw, Call, GoTo, Written, CanSend
<1>30. CASE ExecReturns
  BY <1>30 DEF ExecReturns, GoTo
<1>31. CASE PauseOrEnd
  BY <1>31 DEF PauseOrEnd, GoTo
<1>32. CASE Reconnect
  BY <1>32 DEF Reconnect, GoTo
<1>33. CASE HeartbeatEnds
  BY <1>33 DEF HeartbeatEnds
<1>34. CASE HeartbeatDue
  BY <1>34 DEF HeartbeatDue
<1>35. CASE HeartbeatSends
  BY <1>35 DEF HeartbeatSends, CanSend, Written
<1>36. CASE Report
  BY <1>36 DEF Report
<1>37. CASE WriterTakes
  BY <1>37 DEF WriterTakes
<1>38. CASE WriterSends
  BY <1>38 DEF WriterSends, CanSend, Written
<1>39. CASE WriterEnds
  BY <1>39 DEF WriterEnds
<1>40. ASSUME NEW c \in Commands, Dispatch(c) PROVE AnswerInv'
  <2>1. /\ Len(inbox') = Len(inbox) + 1 /\ inbox'[Len(inbox) + 1] = c
        /\ \A i \in 1 .. Len(inbox) : inbox'[i] = inbox[i]
    BY <1>40, QueueFacts DEF Dispatch
  <2>2. Contains(inbox', c)
    BY <2>1 DEF Contains
  <2>3. \A d \in dispatched : Contains(inbox, d) => Contains(inbox', d)
    BY <2>1 DEF Contains
  <2>4. /\ UNCHANGED <<link, at, ret, command, session>> /\ c \notin dispatched
        /\ dispatched' = dispatched \cup {c}
        /\ \A d \in dispatched : heard'[d] = heard[d]
    BY <1>40 DEF Dispatch
  <2> QED
    BY <2>2, <2>3, <2>4
<1>41. CASE PeerGone
  BY <1>41 DEF PeerGone
<1>42. CASE Reset
  BY <1>42 DEF Reset
<1>43. CASE UNCHANGED vars
  BY <1>43 DEF vars
<1> QED
  BY <1>1, <1>2, <1>3, <1>4, <1>5, <1>6, <1>7, <1>8, <1>9, <1>10, <1>11, <1>12, 
     <1>13, <1>14, <1>15, <1>16, <1>17, <1>18, <1>19, <1>20, <1>21, <1>22, <1>23, 
     <1>24, <1>25, <1>26, <1>27, <1>28, <1>29, <1>30, <1>31, <1>32, <1>33, <1>34, 
     <1>35, <1>36, <1>37, <1>38, <1>39, <1>40, <1>41, <1>42, <1>43
  DEF Next, Step, MainStep, WorkerStep, HeartbeatStep, WriterStep, StopHeartbeat,
      CloseSession, GiveUp, Threads

\* Every reachable state is in the invariant.
LEMMA Invariant == Spec => []Inv
<1>1. Init => Inv
  <2> SUFFICES ASSUME Init PROVE Inv
    OBVIOUS
  <2>1. /\ at = [x \in Threads |-> IF x = "worker" THEN "off" ELSE "new"]
        /\ ret = [x \in Threads |-> "off"]
    BY DEF Init, Threads
  <2>2. TypeInv
    <3>1. heard \in [Commands -> Legal] /\ inbox \in Seq(Commands)
      BY DEF Init, Legal
    <3> QED
      BY <2>1, <3>1 DEF Init, TypeInv, WorkerPc, MainPc, Executing, Threads
  <2>3. JoinInv /\ InboxInv /\ AnswerInv
    BY <2>1 DEF Init, JoinInv, InboxInv, AnswerInv, Threads
  <2> QED
    BY <2>2, <2>3 DEF Inv
<1>2. Inv /\ [Next]_vars => Inv'
  BY TypeStep, JoinStep, InboxStep, AnswerStep DEF Inv
<1> QED
  BY <1>1, <1>2, PTL DEF Spec

\* The server hears of each command in order and of one end, and the worker waits
\* for the next only when the ones it has read are answered (HandleMessage, whose
\* sends may fail between the result and the end), for any number of commands and
\* connections.
THEOREM Answered == Spec => []CommandsAreAnswered
<1>1. Inv => CommandsAreAnswered
  <2> SUFFICES ASSUME Inv PROVE CommandsAreAnswered
    OBVIOUS
  <2>1. \A c \in Commands : \E end \in {"completed", "failed"} :
          IsPrefix(heard[c], Whole(end))
    BY LegalIsPrefix DEF Inv, TypeInv
  <2>2. at["worker"] = "read" /\ link = "open" =>
          \A c \in dispatched : Settled(c) \/ Contains(inbox, c)
    BY DEF Inv, AnswerInv, Listening, Executing
  <2> QED
    BY <2>1, <2>2 DEF CommandsAreAnswered
<1> QED
  BY <1>1, Invariant, PTL

\* No loss of a connection ends the process (StartHeartbeat, StopHeartbeat, Run):
\* only a Stop can meet Run in a join.
THEOREM LossesDoNotTerminate == Spec => []OnlyStopTerminates
<1>1. Inv => OnlyStopTerminates
  BY DEF Inv, JoinInv, OnlyStopTerminates
<1> QED
  BY <1>1, Invariant, PTL


----------------------------------------------------------------------------
(* The order of a plan *)

\* A title that is known is the title of the task it stands for.
LEMMA TitleFacts ==
  ASSUME NEW tasks \in Seq(Task), NEW title, Known(tasks, title)
  PROVE  /\ title_to_index(tasks, title) \in DOMAIN tasks
         /\ tasks[title_to_index(tasks, title)].title = title
<1> DEFINE m == Len(tasks)
           Named(n) == {i \in 1 .. n : tasks[i].title = title}
           T == {n \in Nat : n <= m => Named(n) = {} \/ \E i \in Named(n) : \A j \in Named(n) : j <= i}
<1>1. m \in Nat /\ DOMAIN tasks = 1 .. m
  OBVIOUS
<1> HIDE DEF m
<1>2. 0 \in T
  OBVIOUS
<1>3. ASSUME NEW n \in Nat, n \in T
      PROVE  n + 1 \in T
  <2> SUFFICES ASSUME n + 1 <= m
               PROVE  Named(n + 1) = {} \/ \E i \in Named(n + 1) : \A j \in Named(n + 1) : j <= i
    OBVIOUS
  <2>1. \A j \in 1 .. n + 1 : j = n + 1 \/ j \in 1 .. n
    OBVIOUS
  <2>2. n + 1 \in 1 .. n + 1 /\ \A j \in 1 .. n : j \in 1 .. n + 1
    OBVIOUS
  <2>3. CASE tasks[n + 1].title = title
    BY <2>2, <2>3
  <2>4. CASE tasks[n + 1].title # title
    <3>1. Named(n + 1) = Named(n)
      BY <2>1, <2>2, <2>4
    <3>2. n <= m
      BY <1>1
    <3> HIDE DEF Named
    <3> QED
      BY <1>3, <3>1, <3>2
  <2> QED
    BY <2>3, <2>4
<1> HIDE DEF T
<1>4. m \in T
  BY <1>1, <1>2, <1>3, Induction
<1>5. \E i \in Named(m) : \A j \in Named(m) : j <= i
  BY <1>1, <1>4 DEF T, Known
<1>6. \E i \in DOMAIN tasks :
        /\ tasks[i].title = title
        /\ \A j \in DOMAIN tasks : tasks[j].title = title => j <= i
  BY <1>1, <1>5
<1> QED
  BY <1>6 DEF title_to_index

\* What a task waits for are positions of tasks, one of every title it needs.
LEMMA PrerequisiteFacts ==
  ASSUME NEW tasks \in Seq(Task), NEW i \in DOMAIN tasks
  PROVE  /\ Prerequisites(tasks, i) \in Seq(DOMAIN tasks)
         /\ \A n \in DOMAIN Prerequisites(tasks, i) :
              \E t \in ToSet(tasks[i].depends_on) :
                Known(tasks, t) /\ tasks[Prerequisites(tasks, i)[n]].title = t
         /\ \A t \in ToSet(tasks[i].depends_on) : Known(tasks, t) =>
              \E n \in DOMAIN Prerequisites(tasks, i) :
                tasks[Prerequisites(tasks, i)[n]].title = t
<1> DEFINE depends_on == tasks[i].depends_on
           D == {n \in DOMAIN depends_on : Known(tasks, depends_on[n])}
           named == EntriesAt(depends_on, D)
           P == [n \in DOMAIN named |-> title_to_index(tasks, named[n])]
<1>1. depends_on \in Seq(STRING)
  <2>1. tasks[i] \in Task
    OBVIOUS
  <2> QED
    BY <2>1 DEF Task
<1>2. Prerequisites(tasks, i) = P
  BY DEF Prerequisites
<1>3. named \in Seq(STRING) /\ \E f : Keeps(depends_on, D, Len(depends_on), named, f)
  BY <1>1, EntriesFacts
<1>4. PICK f : Keeps(depends_on, D, Len(depends_on), named, f)
  BY <1>3
<1>5. /\ DOMAIN named = 1 .. Len(named) /\ Len(named) \in Nat
      /\ DOMAIN depends_on = 1 .. Len(depends_on)
  BY <1>1, <1>3
<1> HIDE DEF named
<1>6. \A n \in DOMAIN named : \E l \in DOMAIN depends_on :
        l \in D /\ named[n] = depends_on[l]
  BY <1>4, <1>5 DEF Keeps
<1>7. \A l \in DOMAIN depends_on : l \in D => \E n \in DOMAIN named : named[n] = depends_on[l]
  <2> HIDE DEF D, depends_on
  <2>1. \A l \in 1 .. Len(depends_on) : l \in D => \E n \in 1 .. Len(named) : f[n] = l
    BY <1>4 DEF Keeps
  <2>2. \A n \in 1 .. Len(named) : named[n] = depends_on[f[n]]
    BY <1>4 DEF Keeps
  <2> QED
    BY <1>5, <2>1, <2>2
<1>8. \A n \in DOMAIN named : Known(tasks, named[n]) /\ named[n] \in ToSet(depends_on)
  BY <1>6 DEF ToSet
<1>9. \A n \in DOMAIN named : /\ title_to_index(tasks, named[n]) \in DOMAIN tasks
                              /\ tasks[title_to_index(tasks, named[n])].title = named[n]
  BY <1>8, TitleFacts
<1>10. P \in [1 .. Len(named) -> DOMAIN tasks]
  BY <1>5, <1>9
<1>11. DOMAIN P = DOMAIN named /\ \A n \in DOMAIN named : P[n] = title_to_index(tasks, named[n])
  OBVIOUS
<1> HIDE DEF P
<1>12. P \in Seq(DOMAIN tasks)
  BY <1>5, <1>10, SeqDef
<1>13. \A n \in DOMAIN P : \E t \in ToSet(depends_on) : Known(tasks, t) /\ tasks[P[n]].title = t
  BY <1>8, <1>9, <1>11
<1>14. \A t \in ToSet(depends_on) : Known(tasks, t) => \E n \in DOMAIN P : tasks[P[n]].title = t
  <2> SUFFICES ASSUME NEW t \in ToSet(depends_on), Known(tasks, t)
               PROVE  \E n \in DOMAIN P : tasks[P[n]].title = t
    OBVIOUS
  <2>1. PICK l \in DOMAIN depends_on : depends_on[l] = t
    BY DEF ToSet
  <2>2. l \in D
    BY <2>1
  <2>3. PICK n \in DOMAIN named : named[n] = t
    BY <1>7, <2>1, <2>2
  <2> QED
    BY <1>9, <1>11, <2>3
<1> QED
  BY <1>2, <1>12, <1>13, <1>14

\* No entry twice.
Distinct(s) == \A k, l \in DOMAIN s : s[k] = s[l] => k = l

\* Appending adds the one element.
LEMMA AppendSet ==
  ASSUME NEW S, NEW s \in Seq(S), NEW e \in S
  PROVE  ToSet(Append(s, e)) = ToSet(s) \cup {e}
<1>1. /\ DOMAIN Append(s, e) = 1 .. Len(s) + 1 /\ Append(s, e)[Len(s) + 1] = e
      /\ DOMAIN s = 1 .. Len(s) /\ Len(s) \in Nat
      /\ \A k \in 1 .. Len(s) : Append(s, e)[k] = s[k]
  OBVIOUS
<1>2. \A k \in 1 .. Len(s) + 1 : k = Len(s) + 1 \/ k \in 1 .. Len(s)
  BY <1>1
<1>3. Len(s) + 1 \in 1 .. Len(s) + 1 /\ \A k \in 1 .. Len(s) : k \in 1 .. Len(s) + 1
  BY <1>1
<1> QED
  BY <1>1, <1>2, <1>3 DEF ToSet

\* The numbers up to m that are in D, in their order.
LEMMA ChosenFacts ==
  ASSUME NEW m \in Nat, NEW D \in SUBSET (1 .. m)
  PROVE  LET chosen == EntriesAt([v \in 1 .. m |-> v], D) IN
         chosen \in Seq(1 .. m) /\ Distinct(chosen) /\ ToSet(chosen) = D
<1> DEFINE all == [v \in 1 .. m |-> v]
           chosen == EntriesAt(all, D)
<1>1. all \in Seq(1 .. m) /\ Len(all) = m
  BY SeqDef, LenProperties
<1>2. \A v \in 1 .. m : all[v] = v
  OBVIOUS
<1> HIDE DEF all
<1>3. chosen \in Seq(1 .. m) /\ \E f : Keeps(all, D, m, chosen, f)
  BY <1>1, EntriesFacts
<1>4. PICK f : Keeps(all, D, m, chosen, f)
  BY <1>3
<1>5. DOMAIN chosen = 1 .. Len(chosen) /\ Len(chosen) \in Nat
  BY <1>3
<1> HIDE DEF chosen
<1>6. \A k \in DOMAIN chosen : f[k] \in 1 .. m /\ f[k] \in D /\ chosen[k] = f[k]
  BY <1>2, <1>4, <1>5 DEF Keeps
<1>7. Distinct(chosen)
  <2> SUFFICES ASSUME NEW k \in DOMAIN chosen, NEW l \in DOMAIN chosen,
                      chosen[k] = chosen[l], k # l
               PROVE  FALSE
    BY DEF Distinct
  <2>1. k < l \/ l < k
    BY <1>5
  <2>2. f[k] = f[l] /\ f[k] \in Nat
    BY <1>6
  <2> QED
    BY <1>4, <1>5, <2>1, <2>2 DEF Keeps
<1>8. ToSet(chosen) = D
  <2>1. \A v \in D : \E k \in DOMAIN chosen : chosen[k] = v
    BY <1>4, <1>5, <1>6 DEF Keeps
  <2> QED
    BY <1>6, <2>1 DEF ToSet
<1> QED
  BY <1>3, <1>7, <1>8 DEF chosen, all

\* The places of task v's list whose tasks have not been visited.
Waiting(tasks, v, visited) ==
  {n \in DOMAIN Prerequisites(tasks, v) : Prerequisites(tasks, v)[n] \notin ToSet(visited)}

\* Kahn's algorithm: who waits for nothing is queued or visited, once; who is visited comes
\* after what it waits for.
Kahn(tasks, s) ==
  /\ s.queue \in Seq(DOMAIN tasks) /\ s.visited \in Seq(DOMAIN tasks)
  /\ s.in_degree \in [DOMAIN tasks -> Nat]
  /\ Distinct(s.visited) /\ Distinct(s.queue) /\ ToSet(s.visited) \cap ToSet(s.queue) = {}
  /\ \A v \in DOMAIN tasks :
       /\ s.in_degree[v] = Cardinality(Waiting(tasks, v, s.visited))
       /\ s.in_degree[v] = 0 <=> v \in ToSet(s.queue) \cup ToSet(s.visited)
  /\ \A p \in DOMAIN s.visited : \A n \in DOMAIN Prerequisites(tasks, s.visited[p]) :
       \E q \in 1 .. p - 1 : s.visited[q] = Prerequisites(tasks, s.visited[p])[n]

\* What a task still waits for is finite, and at first all its prerequisites.
LEMMA WaitingFacts ==
  ASSUME NEW tasks \in Seq(Task), NEW v \in DOMAIN tasks, NEW visited
  PROVE  /\ IsFiniteSet(Waiting(tasks, v, visited))
         /\ Cardinality(Waiting(tasks, v, visited)) \in Nat
         /\ Cardinality(Waiting(tasks, v, visited)) = 0 <=> Waiting(tasks, v, visited) = {}
         /\ visited = <<>> => Cardinality(Waiting(tasks, v, visited)) = Len(Prerequisites(tasks, v))
<1>1. Prerequisites(tasks, v) \in Seq(DOMAIN tasks)
  BY PrerequisiteFacts
<1> DEFINE m == Len(Prerequisites(tasks, v))
<1>2. m \in Nat /\ DOMAIN Prerequisites(tasks, v) = 1 .. m
  BY <1>1
<1> HIDE DEF m
<1>3. IsFiniteSet(1 .. m) /\ Cardinality(1 .. m) = m
  <2>1. 1 \in Int /\ m \in Int
    BY <1>2
  <2>2. IsFiniteSet(1 .. m) /\ Cardinality(1 .. m) = IF 1 > m THEN 0 ELSE m - 1 + 1
    BY <2>1, FS_Interval
  <2> QED
    BY <1>2, <2>2
<1>4. Waiting(tasks, v, visited) \in SUBSET (1 .. m)
  BY <1>2 DEF Waiting
<1>5. IsFiniteSet(Waiting(tasks, v, visited))
  BY <1>3, <1>4, FS_Subset
<1>6. visited = <<>> => Waiting(tasks, v, visited) = 1 .. m
  BY <1>2 DEF Waiting, ToSet
<1> QED
  BY <1>3, <1>5, <1>6, FS_CardinalityType, FS_EmptySet DEF m

\* A visit of u takes the places of u from the list of v.
LEMMA LeftFacts ==
  ASSUME NEW tasks \in Seq(Task), NEW v \in DOMAIN tasks, NEW u \in DOMAIN tasks,
         NEW visited \in Seq(DOMAIN tasks), u \notin ToSet(visited)
  PROVE  Cardinality(Waiting(tasks, v, visited)) - Occurrences(Prerequisites(tasks, v), u)
           = Cardinality(Waiting(tasks, v, Append(visited, u)))
<1> DEFINE P == Prerequisites(tasks, v)
           A == Waiting(tasks, v, visited)
           B == Waiting(tasks, v, Append(visited, u))
           C == {n \in DOMAIN P : P[n] = u}
<1>1. ToSet(Append(visited, u)) = ToSet(visited) \cup {u}
  BY AppendSet
<1>2. C = A \cap C /\ B = A \ C
  BY <1>1 DEF Waiting
<1>3. IsFiniteSet(A) /\ Cardinality(A) \in Nat
  BY WaitingFacts
<1>4. Occurrences(P, u) = Cardinality(C)
  BY DEF Occurrences
<1> HIDE DEF A, B, C, P
<1>5. Cardinality(A \ C) = Cardinality(A) - Cardinality(A \cap C)
  BY <1>3, FS_Difference
<1> QED
  BY <1>2, <1>4, <1>5 DEF A, B, C, P

\* What is visited stays visited.
LEMMA LessWaiting ==
  ASSUME NEW tasks \in Seq(Task), NEW v \in DOMAIN tasks, NEW u \in DOMAIN tasks,
         NEW visited \in Seq(DOMAIN tasks)
  PROVE  Waiting(tasks, v, Append(visited, u)) \subseteq Waiting(tasks, v, visited)
<1>1. ToSet(Append(visited, u)) = ToSet(visited) \cup {u}
  BY AppendSet
<1> QED
  BY <1>1 DEF Waiting

State(tasks) == [queue : Seq(DOMAIN tasks), in_degree : [DOMAIN tasks -> Nat],
                 visited : Seq(DOMAIN tasks)]

\* A turn of the loop keeps what Kahn's algorithm relies on.
LEMMA VisitStep ==
  ASSUME NEW tasks \in Seq(Task), NEW s \in State(tasks), Kahn(tasks, s), s.queue # <<>>
  PROVE  /\ Visit(tasks, s) \in State(tasks) /\ Kahn(tasks, Visit(tasks, s))
         /\ Len(Visit(tasks, s).visited) = Len(s.visited) + 1
<1> DEFINE N == DOMAIN tasks
           m == Len(tasks)
           u == Head(s.queue)
           left == [v \in N |-> s.in_degree[v] - Occurrences(Prerequisites(tasks, v), u)]
           D == {v \in N : s.in_degree[v] > 0 /\ left[v] = 0}
           freed == EntriesAt([v \in N |-> v], D)
           todo == Tail(s.queue) \o freed
           visited == Append(s.visited, u)
           t == [queue |-> todo, in_degree |-> left, visited |-> visited]
<1>1. Visit(tasks, s) = t
  BY DEF Visit
<1>2. m \in Nat /\ N = 1 .. m
  OBVIOUS
<1>3. /\ s.queue \in Seq(N) /\ s.visited \in Seq(N) /\ s.in_degree \in [N -> Nat]
      /\ Distinct(s.visited) /\ Distinct(s.queue) /\ ToSet(s.visited) \cap ToSet(s.queue) = {}
      /\ \A v \in N :
           /\ s.in_degree[v] = Cardinality(Waiting(tasks, v, s.visited))
           /\ s.in_degree[v] = 0 <=> v \in ToSet(s.queue) \cup ToSet(s.visited)
      /\ \A p \in DOMAIN s.visited : \A n \in DOMAIN Prerequisites(tasks, s.visited[p]) :
           \E q \in 1 .. p - 1 : s.visited[q] = Prerequisites(tasks, s.visited[p])[n]
  BY DEF Kahn
<1> HIDE DEF N, m
<1> DEFINE tail == Tail(s.queue)
<1>4. /\ u \in N /\ tail \in Seq(N) /\ Len(s.queue) = Len(tail) + 1 /\ s.queue[1] = u
      /\ Len(tail) \in Nat /\ DOMAIN tail = 1 .. Len(tail) /\ DOMAIN s.queue = 1 .. Len(tail) + 1
      /\ \A k \in 1 .. Len(tail) : tail[k] = s.queue[k + 1]
  BY <1>3
<1> HIDE DEF tail
<1>5. /\ Distinct(tail) /\ u \notin ToSet(tail) /\ ToSet(s.queue) = ToSet(tail) \cup {u}
      /\ u \notin ToSet(s.visited)
  <2>1. Distinct(tail)
    <3> SUFFICES ASSUME NEW k \in 1 .. Len(tail), NEW l \in 1 .. Len(tail), tail[k] = tail[l]
                 PROVE  k = l
      BY <1>4 DEF Distinct
    <3>1. s.queue[k + 1] = s.queue[l + 1] /\ k + 1 \in DOMAIN s.queue /\ l + 1 \in DOMAIN s.queue
      BY <1>4
    <3>2. k + 1 = l + 1
      BY <1>3, <3>1 DEF Distinct
    <3> QED
      BY <1>4, <3>2
  <2>2. u \notin ToSet(tail)
    <3> SUFFICES ASSUME NEW k \in 1 .. Len(tail), tail[k] = u
                 PROVE  FALSE
      BY <1>4 DEF ToSet
    <3>1. s.queue[k + 1] = s.queue[1] /\ k + 1 \in DOMAIN s.queue /\ 1 \in DOMAIN s.queue
      BY <1>4
    <3>2. k + 1 = 1
      BY <1>3, <3>1 DEF Distinct
    <3> QED
      BY <1>4, <3>2
  <2>3. ToSet(s.queue) = ToSet(tail) \cup {u}
    <3>1. \A k \in DOMAIN s.queue : k = 1 \/ (k - 1 \in 1 .. Len(tail) /\ s.queue[k] = tail[k - 1])
      BY <1>4
    <3>2. \A k \in 1 .. Len(tail) : k + 1 \in DOMAIN s.queue
      BY <1>4
    <3>3. \A x \in ToSet(s.queue) : x \in ToSet(tail) \cup {u}
      BY <1>4, <3>1 DEF ToSet
    <3>4. 1 \in DOMAIN s.queue
      BY <1>4
    <3>5. \A x \in ToSet(tail) \cup {u} : x \in ToSet(s.queue)
      BY <1>4, <3>2, <3>4 DEF ToSet
    <3> QED
      BY <3>3, <3>5
  <2> QED
    BY <1>3, <2>1, <2>2, <2>3
<1> HIDE DEF u
<1>6. \A v \in N : /\ left[v] = Cardinality(Waiting(tasks, v, visited)) /\ left[v] \in Nat
                   /\ s.in_degree[v] = 0 => left[v] = 0
                   /\ left[v] = 0 <=> Waiting(tasks, v, visited) = {}
  <2> TAKE v \in N
  <2> DEFINE w == Waiting(tasks, v, visited)
  <2>1. v \in DOMAIN tasks /\ u \in DOMAIN tasks /\ s.visited \in Seq(DOMAIN tasks)
    BY <1>3, <1>4 DEF N
  <2>2. left[v] = Cardinality(w)
    BY <1>3, <1>5, <2>1, LeftFacts
  <2>3. Cardinality(w) \in Nat /\ (Cardinality(w) = 0 <=> w = {})
    BY <2>1, WaitingFacts
  <2>4. Cardinality(Waiting(tasks, v, s.visited)) = 0 => w = {}
    BY <2>1, LessWaiting, WaitingFacts
  <2> HIDE DEF w, left
  <2> QED
    BY <1>3, <2>2, <2>3, <2>4 DEF w
<1> HIDE DEF left
<1>7. freed \in Seq(N) /\ Distinct(freed) /\ ToSet(freed) = D
  <2>1. D \in SUBSET (1 .. m)
    BY <1>2
  <2> HIDE DEF D
  <2>2. LET chosen == EntriesAt([v \in 1 .. m |-> v], D) IN
          chosen \in Seq(1 .. m) /\ Distinct(chosen) /\ ToSet(chosen) = D
    BY <1>2, <2>1, ChosenFacts
  <2> QED
    BY <1>2, <2>2
<1> HIDE DEF freed
<1>8. todo \in Seq(N)
  BY <1>4, <1>7 DEF tail
<1>9. ToSet(todo) = ToSet(tail) \cup D /\ Distinct(todo)
  <2>1. D \cap ToSet(tail) = {}
    <3>1. \A v \in ToSet(tail) : v \in N
      BY <1>4 DEF ToSet
    <3> QED
      BY <1>3, <1>5, <3>1
  <2>2. /\ DOMAIN todo = 1 .. Len(tail) + Len(freed) /\ Len(freed) \in Nat
        /\ DOMAIN freed = 1 .. Len(freed)
        /\ \A k \in 1 .. Len(tail) : todo[k] = tail[k]
        /\ \A k \in 1 .. Len(freed) : todo[Len(tail) + k] = freed[k]
    BY <1>4, <1>7 DEF tail
  <2> HIDE DEF todo, D
  <2>3. \A k \in DOMAIN todo :
          \/ k \in DOMAIN tail /\ todo[k] = tail[k]
          \/ k - Len(tail) \in DOMAIN freed /\ todo[k] = freed[k - Len(tail)]
    <3> TAKE k \in DOMAIN todo
    <3>1. CASE k <= Len(tail)
      BY <1>4, <2>2, <3>1
    <3>2. CASE ~(k <= Len(tail))
      <4>1. PICK l \in 1 .. Len(freed) : k = Len(tail) + l
        <5>1. k - Len(tail) \in 1 .. Len(freed) /\ k = Len(tail) + (k - Len(tail))
          BY <1>4, <2>2, <3>2
        <5> QED
          BY <5>1
      <4>2. k - Len(tail) = l
        BY <1>4, <2>2, <4>1
      <4> QED
        BY <2>2, <4>1, <4>2
    <3> QED
      BY <3>1, <3>2
  <2>4. ToSet(todo) = ToSet(tail) \cup ToSet(freed)
    <3>1. ToSet(todo) \subseteq ToSet(tail) \cup ToSet(freed)
      BY <2>3 DEF ToSet
    <3>2. ToSet(tail) \subseteq ToSet(todo)
      <4>1. \A k \in 1 .. Len(tail) : k \in DOMAIN todo
        BY <1>4, <2>2
      <4> QED
        BY <1>4, <2>2, <4>1 DEF ToSet
    <3>3. ToSet(freed) \subseteq ToSet(todo)
      <4>1. \A k \in 1 .. Len(freed) : Len(tail) + k \in DOMAIN todo
        BY <1>4, <2>2
      <4> QED
        BY <2>2, <4>1 DEF ToSet
    <3> QED
      BY <3>1, <3>2, <3>3
  <2>5. Distinct(todo)
    <3> SUFFICES ASSUME NEW k \in DOMAIN todo, NEW l \in DOMAIN todo, todo[k] = todo[l]
                 PROVE  k = l
      BY DEF Distinct
    <3>1. k \in Nat /\ l \in Nat /\ Len(tail) \in Nat
      BY <1>4, <2>2
    <3>2. \A i \in DOMAIN tail, j \in DOMAIN freed : tail[i] # freed[j]
      BY <1>7, <2>1 DEF ToSet
    <3>3. CASE k \in DOMAIN tail /\ todo[k] = tail[k]
      <4>1. l \in DOMAIN tail /\ todo[l] = tail[l]
        BY <2>3, <3>2, <3>3
      <4> QED
        BY <1>5, <3>3, <4>1 DEF Distinct
    <3>4. CASE k - Len(tail) \in DOMAIN freed /\ todo[k] = freed[k - Len(tail)]
      <4>1. l - Len(tail) \in DOMAIN freed /\ todo[l] = freed[l - Len(tail)]
        BY <2>3, <3>2, <3>4
      <4>2. k - Len(tail) = l - Len(tail)
        BY <1>7, <3>4, <4>1 DEF Distinct
      <4> QED
        BY <3>1, <4>2
    <3> QED
      BY <2>3, <3>3, <3>4
  <2> QED
    BY <1>7, <2>4, <2>5
<1>10. visited \in Seq(N) /\ ToSet(visited) = ToSet(s.visited) \cup {u} /\ Distinct(visited)
       /\ Len(visited) = Len(s.visited) + 1 /\ DOMAIN visited = 1 .. Len(s.visited) + 1
       /\ visited[Len(s.visited) + 1] = u /\ DOMAIN s.visited = 1 .. Len(s.visited)
       /\ \A k \in 1 .. Len(s.visited) : visited[k] = s.visited[k]
  <2>1. /\ visited \in Seq(N) /\ Len(visited) = Len(s.visited) + 1
        /\ DOMAIN visited = 1 .. Len(s.visited) + 1 /\ visited[Len(s.visited) + 1] = u
        /\ DOMAIN s.visited = 1 .. Len(s.visited) /\ Len(s.visited) \in Nat
        /\ \A k \in 1 .. Len(s.visited) : visited[k] = s.visited[k]
    BY <1>3, <1>4
  <2>2. \A k \in DOMAIN visited : k = Len(s.visited) + 1 \/ k \in DOMAIN s.visited
    BY <2>1
  <2> HIDE DEF visited
  <2>3. ToSet(visited) = ToSet(s.visited) \cup {u}
    <3>1. \A k \in DOMAIN s.visited : k \in DOMAIN visited
      BY <2>1
    <3>2. Len(s.visited) + 1 \in DOMAIN visited
      BY <2>1
    <3> QED
      BY <2>1, <2>2, <3>1, <3>2 DEF ToSet
  <2>4. Distinct(visited)
    <3>1. \A k \in DOMAIN s.visited : visited[k] = s.visited[k] /\ visited[k] # u
      BY <1>5, <2>1 DEF ToSet
    <3> QED
      BY <1>3, <2>1, <2>2, <3>1 DEF Distinct
  <2> QED
    BY <2>1, <2>3, <2>4
<1>11. ToSet(visited) \cap ToSet(todo) = {}
  <2>1. \A v \in ToSet(s.visited) \cup {u} : v \in N /\ s.in_degree[v] = 0
    <3>1. \A v \in ToSet(s.visited) : v \in N
      BY <1>3 DEF ToSet
    <3> QED
      BY <1>3, <1>4, <1>5, <3>1
  <2>2. (ToSet(s.visited) \cup {u}) \cap D = {}
    BY <2>1
  <2>3. (ToSet(s.visited) \cup {u}) \cap ToSet(tail) = {}
    BY <1>3, <1>5
  <2> QED
    BY <1>9, <1>10, <2>2, <2>3
<1>12. \A v \in N : left[v] = 0 <=> v \in ToSet(todo) \cup ToSet(visited)
  <2> TAKE v \in N
  <2>1. ToSet(todo) \cup ToSet(visited) = ToSet(s.queue) \cup ToSet(s.visited) \cup D
    BY <1>5, <1>9, <1>10
  <2>2. s.in_degree[v] = 0 <=> v \in ToSet(s.queue) \cup ToSet(s.visited)
    BY <1>3
  <2>3. s.in_degree[v] \in Nat /\ (s.in_degree[v] = 0 => left[v] = 0)
    BY <1>3, <1>6
  <2>4. v \in D <=> s.in_degree[v] > 0 /\ left[v] = 0
    OBVIOUS
  <2> HIDE DEF D, todo, visited
  <2>5. s.in_degree[v] > 0 <=> s.in_degree[v] # 0
    BY <2>3
  <2> QED
    BY <2>1, <2>2, <2>3, <2>4, <2>5, Zenon
<1>13. \A p \in DOMAIN visited : \A n \in DOMAIN Prerequisites(tasks, visited[p]) :
         \E q \in 1 .. p - 1 : visited[q] = Prerequisites(tasks, visited[p])[n]
  <2> TAKE p \in DOMAIN visited
  <2>1. Len(s.visited) \in Nat
    BY <1>3
  <2>2. CASE p = Len(s.visited) + 1
    <3>1. visited[p] = u /\ p - 1 = Len(s.visited)
      BY <1>10, <2>1, <2>2
    <3>2. Waiting(tasks, u, s.visited) = {}
      <4>1. s.in_degree[u] = 0 /\ s.in_degree[u] = Cardinality(Waiting(tasks, u, s.visited))
        BY <1>3, <1>4, <1>5
      <4>2. u \in DOMAIN tasks
        BY <1>4 DEF N
      <4> QED
        BY <4>1, <4>2, WaitingFacts
    <3>3. \A n \in DOMAIN Prerequisites(tasks, u) :
            \E q \in 1 .. Len(s.visited) : s.visited[q] = Prerequisites(tasks, u)[n]
      BY <1>10, <3>2 DEF Waiting, ToSet
    <3> HIDE DEF visited
    <3> QED
      BY <1>10, <3>1, <3>3
  <2>3. CASE p \in DOMAIN s.visited
    <3>1. visited[p] = s.visited[p] /\ \A q \in 1 .. p - 1 : visited[q] = s.visited[q]
      BY <1>10, <2>1, <2>3
    <3>2. \A n \in DOMAIN Prerequisites(tasks, s.visited[p]) :
            \E q \in 1 .. p - 1 : s.visited[q] = Prerequisites(tasks, s.visited[p])[n]
      BY <1>3, <2>3
    <3> HIDE DEF visited
    <3> QED
      BY <3>1, <3>2
  <2>4. p = Len(s.visited) + 1 \/ p \in DOMAIN s.visited
    <3> HIDE DEF visited
    <3> QED
      BY <1>10, <2>1
  <2> QED
    BY <2>2, <2>3, <2>4
<1>14. left \in [N -> Nat]
  BY <1>6 DEF left
<1> HIDE DEF todo, visited, D
<1>15. t \in State(tasks)
  BY <1>8, <1>10, <1>14 DEF State, N
<1>16. Kahn(tasks, t)
  <2>1. t.queue = todo /\ t.visited = visited /\ t.in_degree = left
    OBVIOUS
  <2> HIDE DEF t, left
  <2>2. /\ t.queue \in Seq(DOMAIN tasks) /\ t.visited \in Seq(DOMAIN tasks)
        /\ t.in_degree \in [DOMAIN tasks -> Nat]
    BY <2>1, <1>8, <1>10, <1>14 DEF N
  <2>3. /\ Distinct(t.visited) /\ Distinct(t.queue)
        /\ ToSet(t.visited) \cap ToSet(t.queue) = {}
    BY <2>1, <1>9, <1>10, <1>11
  <2>4. \A v \in DOMAIN tasks :
          /\ t.in_degree[v] = Cardinality(Waiting(tasks, v, t.visited))
          /\ t.in_degree[v] = 0 <=> v \in ToSet(t.queue) \cup ToSet(t.visited)
    BY <2>1, <1>6, <1>12 DEF N
  <2>5. \A p \in DOMAIN t.visited : \A n \in DOMAIN Prerequisites(tasks, t.visited[p]) :
          \E q \in 1 .. p - 1 : t.visited[q] = Prerequisites(tasks, t.visited[p])[n]
    BY <2>1, <1>13
  <2> QED
    BY <2>2, <2>3, <2>4, <2>5, Zenon DEF Kahn
<1> QED
  BY <1>1, <1>10, <1>15, <1>16

\* The state before the first visit.
LEMMA StartFacts ==
  ASSUME NEW tasks \in Seq(Task)
  PROVE  LET in_degree == [i \in DOMAIN tasks |-> Len(Prerequisites(tasks, i))]
             start == [queue |-> EntriesAt([i \in DOMAIN tasks |-> i],
                                           {i \in DOMAIN tasks : in_degree[i] = 0}),
                       in_degree |-> in_degree, visited |-> <<>>]
         IN start \in State(tasks) /\ Kahn(tasks, start)
<1> DEFINE N == DOMAIN tasks
           m == Len(tasks)
           in_degree == [i \in N |-> Len(Prerequisites(tasks, i))]
           D == {i \in N : in_degree[i] = 0}
           todo == EntriesAt([i \in N |-> i], D)
           start == [queue |-> todo, in_degree |-> in_degree, visited |-> <<>>]
<1>1. m \in Nat /\ N = 1 .. m
  OBVIOUS
<1>2. \A v \in N : in_degree[v] \in Nat /\ in_degree[v] = Cardinality(Waiting(tasks, v, <<>>))
  <2> TAKE v \in N
  <2>1. Prerequisites(tasks, v) \in Seq(DOMAIN tasks)
    BY PrerequisiteFacts
  <2>2. Cardinality(Waiting(tasks, v, <<>>)) = Len(Prerequisites(tasks, v))
    BY WaitingFacts
  <2> QED
    BY <2>1, <2>2
<1> HIDE DEF N, m
<1>3. in_degree \in [N -> Nat]
  BY <1>2
<1>4. todo \in Seq(N) /\ Distinct(todo) /\ ToSet(todo) = D
  <2>1. D \in SUBSET (1 .. m)
    BY <1>1
  <2> HIDE DEF D
  <2>2. LET chosen == EntriesAt([v \in 1 .. m |-> v], D) IN
          chosen \in Seq(1 .. m) /\ Distinct(chosen) /\ ToSet(chosen) = D
    BY <1>1, <2>1, ChosenFacts
  <2> QED
    BY <1>1, <2>2
<1> HIDE DEF todo, in_degree
<1>5. ToSet(<<>>) = {} /\ Distinct(<<>>) /\ <<>> \in Seq(N) /\ DOMAIN <<>> = {}
  BY DEF ToSet, Distinct
<1>6. start \in State(tasks)
  BY <1>3, <1>4, <1>5 DEF State, N
<1>7. start.queue = todo /\ start.visited = <<>> /\ start.in_degree = in_degree
  OBVIOUS
<1> HIDE DEF start
<1>8. Kahn(tasks, start)
  BY <1>2, <1>3, <1>4, <1>5, <1>7 DEF Kahn, N
<1> QED
  BY <1>6, <1>8 DEF start, todo, D, in_degree, N

\* How the loop ends: after as many turns as there are tasks the queue is empty, or
\* all of them have been visited.
LEMMA VisitedFacts ==
  ASSUME NEW tasks \in Seq(Task)
  PROVE  \E s \in State(tasks) :
           /\ Kahn(tasks, s) /\ s.visited = Visited(tasks)
           /\ s.queue = <<>> \/ Len(s.visited) = Len(tasks)
<1> DEFINE m == Len(tasks)
           V == {s \in State(tasks) : Kahn(tasks, s)}
           in_degree == [i \in DOMAIN tasks |-> Len(Prerequisites(tasks, i))]
           start == [queue |-> EntriesAt([i \in DOMAIN tasks |-> i],
                                         {i \in DOMAIN tasks : in_degree[i] = 0}),
                     in_degree |-> in_degree, visited |-> <<>>]
           Turn(s) == IF s.queue = <<>> THEN s ELSE Visit(tasks, s)
           Body(g) == [n \in 0 .. m |-> IF n = 0 THEN start
                                        ELSE IF g[n - 1].queue = <<>> THEN g[n - 1]
                                        ELSE Visit(tasks, g[n - 1])]
           run == CHOOSE g : g = Body(g)
           G == [p \in (1 .. m) \X V |-> Turn(p[2])]
<1>1. Visited(tasks) = run[m].visited
  BY DEF Visited
<1>2. start \in V
  BY StartFacts
<1>a. start.visited = <<>>
  OBVIOUS
<1>3. m \in Nat
  OBVIOUS
<1> HIDE DEF start, run, Body, m
<1>4. ASSUME NEW s \in V
      PROVE  /\ Turn(s) \in V
             /\ s.queue = <<>> => Turn(s) = s
             /\ s.queue # <<>> => Len(Turn(s).visited) = Len(s.visited) + 1
  BY VisitStep
<1> HIDE DEF V
<1>5. \A i \in 1 .. m : \A s \in V : G[<<i, s>>] = Turn(s)
  OBVIOUS
<1> HIDE DEF G, Turn
<1>6. StepsStayIn(V, m, G)
  BY <1>4, <1>5 DEF StepsStayIn
<1>7. \E g \in [0 .. m -> V] : FollowsSteps(g, start, m, G)
  BY <1>2, <1>3, <1>6, Recursion, Zenon
<1>8. PICK g \in [0 .. m -> V] : g[0] = start /\ \A i \in 1 .. m : g[i] = G[<<i, g[i - 1]>>]
  BY <1>7 DEF FollowsSteps
<1>9. \A i \in 1 .. m : g[i - 1] \in V /\ g[i] = Turn(g[i - 1])
  <2> TAKE i \in 1 .. m
  <2>1. i - 1 \in 0 .. m
    BY <1>3
  <2>2. g[i - 1] \in V
    BY <1>8, <2>1
  <2> QED
    BY <1>5, <1>8, <2>2
<1>10. g = Body(g)
  <2>1. \A n \in 0 .. m : g[n] = IF n = 0 THEN start
                                 ELSE IF g[n - 1].queue = <<>> THEN g[n - 1]
                                 ELSE Visit(tasks, g[n - 1])
    <3> TAKE n \in 0 .. m
    <3>1. n = 0 \/ n \in 1 .. m
      BY <1>3
    <3>2. \A i \in 1 .. m : i # 0
      BY <1>3
    <3> QED
      BY <1>8, <1>9, <3>1, <3>2 DEF Turn
  <2> QED
    BY <1>8, <2>1 DEF Body
<1>11. run = Body(run)
  BY <1>10 DEF run
<1>12. \A n \in 0 .. m : run[n] = IF n = 0 THEN start
                                  ELSE IF run[n - 1].queue = <<>> THEN run[n - 1]
                                  ELSE Visit(tasks, run[n - 1])
  BY <1>11 DEF Body
<1> DEFINE T == {n \in Nat : n <= m =>
                   /\ run[n] = g[n]
                   /\ g[n].queue = <<>> \/ Len(g[n].visited) = n}
<1>13. 0 \in T
  BY <1>3, <1>8, <1>12, <1>a
<1>14. \A n \in Nat : n \in T => n + 1 \in T
  <2> TAKE n \in Nat
  <2> SUFFICES ASSUME n + 1 <= m, run[n] = g[n], g[n].queue = <<>> \/ Len(g[n].visited) = n
               PROVE  /\ run[n + 1] = g[n + 1]
                      /\ g[n + 1].queue = <<>> \/ Len(g[n + 1].visited) = n + 1
    BY <1>3
  <2>1. n + 1 \in 0 .. m /\ n + 1 \in 1 .. m /\ n + 1 # 0 /\ n + 1 - 1 = n
    BY <1>3
  <2>2. g[n] \in V /\ g[n + 1] = Turn(g[n])
    BY <1>9, <2>1
  <2>3. run[n + 1] = Turn(run[n])
    BY <1>12, <2>1 DEF Turn
  <2> QED
    BY <1>4, <2>2, <2>3
<1>15. Nat \subseteq T
  <2> HIDE DEF T
  <2> QED
    BY <1>13, <1>14, Induction
<1>16. run[m] = g[m] /\ g[m] \in V /\ (g[m].queue = <<>> \/ Len(g[m].visited) = m)
  BY <1>3, <1>8, <1>15
<1> QED
  BY <1>1, <1>16 DEF V, m

\* A sequence over 1 .. m without repetition has all of it iff it is as long.
LEMMA DistinctFacts ==
  ASSUME NEW m \in Nat, NEW s \in Seq(1 .. m), Distinct(s)
  PROVE  Len(s) = m <=> ToSet(s) = 1 .. m
<1> DEFINE n == Len(s)
<1>1. n \in Nat /\ DOMAIN s = 1 .. n /\ s \in [1 .. n -> 1 .. m]
  OBVIOUS
<1> HIDE DEF n
<1>2. s \in Injection(1 .. n, 1 .. m)
  BY <1>1 DEF Injection, IsInjective, Distinct
<1>3. IsFiniteSet(1 .. m) /\ Cardinality(1 .. m) = IF 1 > m THEN 0 ELSE m - 1 + 1
  BY FS_Interval
<1>4. Cardinality(1 .. n) = IF 1 > n THEN 0 ELSE n - 1 + 1
  BY <1>1, FS_Interval
<1>5. Cardinality(1 .. n) = Cardinality(1 .. m) <=> s \in Surjection(1 .. n, 1 .. m)
  BY <1>2, <1>3, FS_Injection
<1>6. Cardinality(1 .. n) = n /\ Cardinality(1 .. m) = m
  BY <1>1, <1>3, <1>4
<1>7. s \in Surjection(1 .. n, 1 .. m) <=> ToSet(s) = 1 .. m
  BY <1>1 DEF Surjection, ToSet
<1> QED
  BY <1>5, <1>6, <1>7 DEF n

\* What each task of a list waits for, by its title.
Needs(tasks, i) == {t \in ToSet(tasks[i].depends_on) : Known(tasks, t)}

\* The order of a plan that is not refused: every task once, after one of every title
\* it depends on.
LEMMA OrderFacts ==
  ASSUME NEW tasks \in Seq(Task), ~DetectCycle(tasks)
  PROVE  /\ TopoSort(tasks) \in Seq(DOMAIN tasks) /\ Len(TopoSort(tasks)) = Len(tasks)
         /\ Distinct(TopoSort(tasks)) /\ ToSet(TopoSort(tasks)) = DOMAIN tasks
         /\ \A n \in DOMAIN TopoSort(tasks) : \A t \in Needs(tasks, TopoSort(tasks)[n]) :
              \E m \in 1 .. n - 1 : tasks[TopoSort(tasks)[m]].title = t
<1> DEFINE order == TopoSort(tasks)
<1>1. PICK s \in State(tasks) : Kahn(tasks, s) /\ s.visited = order
  BY VisitedFacts DEF TopoSort
<1>2. Len(order) = Len(tasks) /\ Len(tasks) \in Nat /\ DOMAIN tasks = 1 .. Len(tasks)
  BY DEF DetectCycle, TopoSort
<1> HIDE DEF order
<1>3. order \in Seq(DOMAIN tasks) /\ Distinct(order)
  BY <1>1 DEF Kahn
<1>4. ToSet(order) = DOMAIN tasks
  BY <1>2, <1>3, DistinctFacts
<1>5. ASSUME NEW n \in DOMAIN order, NEW t \in Needs(tasks, order[n])
      PROVE  \E m \in 1 .. n - 1 : tasks[order[m]].title = t
  <2>1. order[n] \in DOMAIN tasks
    BY <1>3
  <2>2. PICK k \in DOMAIN Prerequisites(tasks, order[n]) :
          tasks[Prerequisites(tasks, order[n])[k]].title = t
    BY <2>1, PrerequisiteFacts DEF Needs
  <2> QED
    BY <1>1, <2>2 DEF Kahn
<1> QED
  BY <1>2, <1>3, <1>4, <1>5 DEF order

\* A plan that is refused cannot be ordered.
LEMMA CycleFacts ==
  ASSUME NEW tasks \in Seq(Task), DetectCycle(tasks),
         NEW rank \in [DOMAIN tasks -> DOMAIN tasks],
         \A i, j \in DOMAIN tasks : tasks[j].title \in Needs(tasks, i) => rank[j] < rank[i]
  PROVE  FALSE
<1>1. PICK s \in State(tasks) : /\ Kahn(tasks, s) /\ s.visited = Visited(tasks)
                                /\ s.queue = <<>> \/ Len(s.visited) = Len(tasks)
  BY VisitedFacts
<1>2. Len(s.visited) # Len(tasks) /\ s.queue = <<>>
  BY <1>1 DEF DetectCycle
<1> DEFINE Rest == DOMAIN tasks \ ToSet(s.visited)
<1>3. Len(tasks) \in Nat /\ DOMAIN tasks = 1 .. Len(tasks)
  OBVIOUS
<1>4. s.visited \in Seq(DOMAIN tasks) /\ Distinct(s.visited)
  BY <1>1 DEF Kahn
<1>5. Rest # {}
  <2>1. ToSet(s.visited) # DOMAIN tasks
    BY <1>2, <1>3, <1>4, DistinctFacts
  <2>2. ToSet(s.visited) \subseteq DOMAIN tasks
    BY <1>4 DEF ToSet
  <2> QED
    BY <2>1, <2>2
<1>6. \A v \in DOMAIN tasks : rank[v] \in Nat
  BY <1>3
<1>7. ASSUME NEW v \in Rest
      PROVE  \E j \in Rest : rank[j] < rank[v]
  <2>1. s.in_degree[v] # 0
    BY <1>1, <1>2 DEF Kahn, ToSet
  <2>2. Waiting(tasks, v, s.visited) # {}
    BY <1>1, <2>1, WaitingFacts DEF Kahn
  <2>3. PICK n \in DOMAIN Prerequisites(tasks, v) :
          Prerequisites(tasks, v)[n] \notin ToSet(s.visited)
    BY <2>2 DEF Waiting
  <2> DEFINE j == Prerequisites(tasks, v)[n]
  <2>4. j \in Rest
    BY <2>3, PrerequisiteFacts
  <2>5. tasks[j].title \in Needs(tasks, v)
    BY PrerequisiteFacts DEF Needs
  <2> QED
    BY <2>4, <2>5
<1> HIDE DEF Rest
<1> DEFINE T == {n \in Nat : \A v \in Rest : n <= rank[v]}
<1>8. Rest \subseteq DOMAIN tasks
  BY DEF Rest
<1>9. 0 \in T
  BY <1>6, <1>8
<1>10. ASSUME NEW n \in Nat, n \in T
       PROVE  n + 1 \in T
  <2>1. ASSUME NEW v \in Rest PROVE n + 1 <= rank[v]
    <3>1. PICK j \in Rest : rank[j] < rank[v]
      BY <1>7
    <3>2. n <= rank[j] /\ rank[j] \in Nat /\ rank[v] \in Nat
      BY <1>6, <1>8, <1>10
    <3> QED
      BY <3>1, <3>2
  <2> QED
    BY <2>1
<1>11. Nat \subseteq T
  <2> HIDE DEF T
  <2> QED
    BY <1>9, <1>10, Induction
<1>12. PICK v \in Rest : TRUE
  BY <1>5
<1>13. rank[v] \in Nat /\ rank[v] + 1 \in Nat
  BY <1>6, <1>8
<1>14. rank[v] + 1 <= rank[v]
  BY <1>11, <1>13
<1> QED
  BY <1>13, <1>14
----------------------------------------------------------------------------
(* The tool *)

PTypes ==
  /\ stage \in {"begin", "query", "decompose", "invalid", "cyclic", "next", "submit", "done"}
  /\ asked \in Seq(Task)
  /\ outcomes \in Seq((DOMAIN asked) \X BOOLEAN)
  /\ plan \in Seq(DOMAIN asked) /\ created \in Seq(DOMAIN asked)
  /\ call \in {"none", "connect", "write", "read"} /\ attempt \in {1, 2}
  /\ response \in {"none", "done", "refused", "exception"}
  /\ call # "none" => stage \in {"query", "submit"}
  /\ stage \in {"begin", "query", "decompose"} => plan = <<>>
  /\ stage \notin {"next", "submit", "done"} => outcomes = <<>> /\ created = <<>>

\* What has been submitted, followed by what is left, is the plan in its order.
PlanInv ==
  /\ stage \in {"next", "submit", "done"} =>
       /\ ~DetectCycle(asked)
       /\ Len(outcomes) + Len(plan) = Len(asked)
       /\ \A n \in DOMAIN outcomes : outcomes[n][1] = TopoSort(asked)[n]
       /\ \A n \in DOMAIN plan : plan[n] = TopoSort(asked)[Len(outcomes) + n]
  /\ stage = "submit" => plan # <<>>
  /\ stage = "done" => plan = <<>>
  /\ stage = "cyclic" => DetectCycle(asked)

\* How often the server may have been asked for a task.
Sent == IF call \in {"connect", "write"} THEN attempt - 1
        ELSE IF call = "read" THEN attempt ELSE 2
Allowed(i) == IF i \notin ToSet(plan) THEN 2
              ELSE IF stage = "submit" /\ i = Head(plan) THEN Sent ELSE 0

ToldInv == \A n \in DOMAIN outcomes : outcomes[n][2] => Contains(created, outcomes[n][1])
HeardInv == stage = "submit" /\ relay = "worker" /\ response = "done"
              => Contains(created, Head(plan))
OftenInv == stage \in {"next", "submit", "done"} =>
              \A i \in DOMAIN asked : Occurrences(created, i) <= Allowed(i)

PInv == PTypes /\ PlanInv /\ ToldInv /\ HeardInv /\ OftenInv

\* Appending e adds one occurrence, of e.
LEMMA OccurrenceFacts ==
  ASSUME NEW S, NEW s \in Seq(S), NEW e \in S, NEW i
  PROVE  /\ Occurrences(<<>>, i) = 0
         /\ Occurrences(s, i) \in Nat
         /\ Occurrences(Append(s, e), i) = Occurrences(s, i) + (IF i = e THEN 1 ELSE 0)
         /\ Contains(Append(s, e), e)
         /\ \A x : Contains(s, x) => Contains(Append(s, e), x)
<1> DEFINE m == Len(s)
           A == {n \in DOMAIN s : s[n] = i}
           t == Append(s, e)
           B == {n \in DOMAIN t : t[n] = i}
<1>1. /\ m \in Nat /\ DOMAIN s = 1 .. m /\ DOMAIN t = 1 .. m + 1 /\ Len(t) = m + 1
      /\ t[m + 1] = e /\ \A n \in 1 .. m : t[n] = s[n]
  OBVIOUS
<1> HIDE DEF m, t
<1>2. \A n \in 1 .. m + 1 : n = m + 1 \/ n \in 1 .. m
  BY <1>1
<1>3. m + 1 \in 1 .. m + 1 /\ m + 1 \notin 1 .. m /\ \A n \in 1 .. m : n \in 1 .. m + 1
  BY <1>1
<1>4. IsFiniteSet(1 .. m)
  BY <1>1, FS_Interval
<1>5. A \in SUBSET (1 .. m)
  BY <1>1
<1>6. IsFiniteSet(A) /\ Cardinality(A) \in Nat
  BY <1>4, <1>5, FS_Subset, FS_CardinalityType
<1>7. B = IF i = e THEN A \cup {m + 1} ELSE A
  BY <1>1, <1>2, <1>3
<1>8. m + 1 \notin A
  BY <1>1, <1>3
<1> HIDE DEF A, B
<1>9. Cardinality(B) = Cardinality(A) + (IF i = e THEN 1 ELSE 0)
  <2>1. Cardinality(A \cup {m + 1}) = Cardinality(A) + 1
    BY <1>6, <1>8, FS_AddElement
  <2>2. CASE i = e
    BY <1>7, <2>1, <2>2
  <2>3. CASE i # e
    <3>1. B = A
      BY <1>7, <2>3
    <3> QED
      BY <1>6, <2>3, <3>1
  <2> QED
    BY <2>2, <2>3
<1>10. Occurrences(s, i) = Cardinality(A) /\ Occurrences(t, i) = Cardinality(B)
  BY DEF Occurrences, A, B
<1>11. Occurrences(<<>>, i) = 0
  <2>1. {n \in DOMAIN <<>> : <<>>[n] = i} = {}
    OBVIOUS
  <2> QED
    BY <2>1, FS_EmptySet DEF Occurrences
<1>12. Contains(t, e) /\ \A x : Contains(s, x) => Contains(t, x)
  BY <1>1, <1>3 DEF Contains, m
<1> QED
  BY <1>6, <1>9, <1>10, <1>11, <1>12 DEF t

\* Occurrences are a natural number.
LEMMA OccurrenceType ==
  ASSUME NEW S, NEW s \in Seq(S), NEW i
  PROVE  Occurrences(s, i) \in Nat
<1> DEFINE A == {n \in DOMAIN s : s[n] = i}
<1>1. IsFiniteSet(DOMAIN s)
  BY FS_Interval
<1>2. A \in SUBSET DOMAIN s
  OBVIOUS
<1> QED
  BY <1>1, <1>2, FS_Subset, FS_CardinalityType DEF Occurrences

\* What is left of a plan has no task twice.
LEMMA PlanFacts ==
  ASSUME PTypes, PlanInv, stage \in {"next", "submit", "done"}, plan # <<>>
  PROVE  /\ Head(plan) \in DOMAIN asked /\ Head(plan) \in ToSet(plan)
         /\ Head(plan) = TopoSort(asked)[Len(outcomes) + 1]
         /\ Tail(plan) \in Seq(DOMAIN asked) /\ Len(plan) = Len(Tail(plan)) + 1
         /\ \A n \in DOMAIN Tail(plan) : Tail(plan)[n] = plan[n + 1]
         /\ ToSet(plan) = ToSet(Tail(plan)) \cup {Head(plan)}
         /\ Head(plan) \notin ToSet(Tail(plan))
<1> DEFINE tail == Tail(plan)
           order == TopoSort(asked)
<1>1. plan \in Seq(DOMAIN asked) /\ plan # <<>> /\ asked \in Seq(Task)
  BY DEF PTypes
<1>2. /\ tail \in Seq(DOMAIN asked) /\ Len(plan) = Len(tail) + 1 /\ Len(tail) \in Nat
      /\ DOMAIN tail = 1 .. Len(tail) /\ DOMAIN plan = 1 .. Len(tail) + 1
      /\ Head(plan) = plan[1] /\ Head(plan) \in DOMAIN asked
      /\ \A n \in 1 .. Len(tail) : tail[n] = plan[n + 1]
  BY <1>1
<1> HIDE DEF tail
<1>3. /\ order \in Seq(DOMAIN asked) /\ Len(order) = Len(asked) /\ Distinct(order)
      /\ DOMAIN order = 1 .. Len(asked) /\ Len(asked) \in Nat
  <2>1. ~DetectCycle(asked)
    BY DEF PlanInv
  <2>2. order \in Seq(DOMAIN asked) /\ Len(order) = Len(asked) /\ Distinct(order)
    BY <1>1, <2>1, OrderFacts
  <2> QED
    BY <1>1, <2>2
<1> HIDE DEF order
<1>4. /\ Len(outcomes) + Len(plan) = Len(asked) /\ Len(outcomes) \in Nat
      /\ \A n \in DOMAIN plan : plan[n] = order[Len(outcomes) + n]
  BY DEF PTypes, PlanInv, order
<1>5. 1 \in DOMAIN plan /\ \A n \in 1 .. Len(tail) : n + 1 \in DOMAIN plan
  BY <1>2
<1>6. ToSet(plan) = ToSet(tail) \cup {Head(plan)}
  <2>1. \A n \in DOMAIN plan : n = 1 \/ (n - 1 \in 1 .. Len(tail) /\ plan[n] = tail[n - 1])
    BY <1>2
  <2>2. \A x \in ToSet(plan) : x \in ToSet(tail) \cup {Head(plan)}
    BY <1>2, <2>1 DEF ToSet
  <2>3. \A x \in ToSet(tail) \cup {Head(plan)} : x \in ToSet(plan)
    BY <1>2, <1>5 DEF ToSet
  <2> QED
    BY <2>2, <2>3
<1>7. ASSUME NEW n \in 1 .. Len(tail), tail[n] = Head(plan)
      PROVE  FALSE
  <2>1. order[Len(outcomes) + (n + 1)] = order[Len(outcomes) + 1]
    BY <1>2, <1>4, <1>5, <1>7
  <2>2. Len(outcomes) + (n + 1) \in DOMAIN order /\ Len(outcomes) + 1 \in DOMAIN order
    <3> DEFINE k == Len(outcomes)
               l == Len(tail)
    <3>1. k \in Nat /\ l \in Nat /\ k + (l + 1) = Len(asked) /\ n \in 1 .. l
      BY <1>2, <1>4
    <3> HIDE DEF k, l
    <3>2. k + (n + 1) \in 1 .. k + (l + 1) /\ k + 1 \in 1 .. k + (l + 1)
      BY <3>1
    <3> QED
      BY <1>3, <3>1, <3>2 DEF k
  <2>3. Len(outcomes) + (n + 1) = Len(outcomes) + 1
    BY <1>3, <2>1, <2>2 DEF Distinct
  <2> QED
    BY <1>4, <2>3
<1>8. Head(plan) \notin ToSet(tail)
  BY <1>2, <1>7 DEF ToSet
<1> QED
  BY <1>2, <1>4, <1>5, <1>6, <1>8 DEF tail, order, ToSet

\* A step of a request keeps to the plan.
LEMMA RequestStep ==
  ASSUME PInv, DoRequest
  PROVE  PInv'
<1> USE DEF PInv
<1>0. /\ UNCHANGED <<stage, relay, asked, plan, outcomes>>
      /\ call \in {"connect", "write", "read"} /\ stage \in {"query", "submit"}
      /\ attempt \in {1, 2}
  BY DEF DoRequest, Connect, WriteThrows, Write, Read, PTypes
<1>1. PlanInv'
  BY <1>0 DEF PlanInv
<1>2. ASSUME created' = created
      PROVE  PTypes' /\ ToldInv' /\ HeardInv' /\ OftenInv'
  <2>1. /\ call' \in {"none", "connect", "write", "read"} /\ attempt' \in {1, 2}
        /\ response' \in {"none", "done", "refused", "exception"}
    BY <1>0, <1>2 DEF DoRequest, Connect, WriteThrows, Write, Read, EndRequest, Broken, PTypes
  <2>2. response' = "done" /\ stage = "submit" => response = "done"
    <3>1. CASE Write /\ stage = "submit"
      <4>1. PICK answer \in {"none", "done", "refused"} :
              /\ response' = answer
              /\ created' = IF answer = "done" THEN Append(created, Head(plan)) ELSE created
        BY <3>1 DEF Write
      <4>2. Append(created, Head(plan)) # created
        <5>1. created \in Seq(DOMAIN asked)
          BY DEF PTypes
        <5>2. Len(Append(created, Head(plan))) = Len(created) + 1 /\ Len(created) \in Nat
          BY <5>1
        <5> QED
          BY <5>2
      <4> QED
        BY <1>2, <4>1, <4>2
    <3>2. CASE ~Write
      BY <1>0, <3>2 DEF DoRequest, Connect, WriteThrows, Read, EndRequest, Broken
    <3> QED
      BY <3>1, <3>2
  <2>3. Sent \in Nat /\ Sent' \in Nat /\ Sent <= Sent'
    BY <1>0, <1>2 DEF DoRequest, Connect, WriteThrows, Write, Read, EndRequest, Broken, Sent, PTypes
  <2>4. PTypes'
    BY <1>0, <1>2, <2>1 DEF PTypes
  <2>5. \A i : Allowed(i) \in Nat /\ Allowed(i)' \in Nat /\ Allowed(i) <= Allowed(i)'
    BY <1>0, <2>3 DEF Allowed
  <2>6. \A i \in DOMAIN asked : Occurrences(created, i) \in Nat
    BY OccurrenceType DEF PTypes
  <2>7. ToldInv'
    BY <1>0, <1>2 DEF ToldInv
  <2>8. HeardInv'
    BY <1>0, <1>2, <2>2 DEF HeardInv
  <2>9. OftenInv'
    BY <1>0, <1>2, <2>5, <2>6 DEF OftenInv
  <2> QED
    BY <2>4, <2>7, <2>8, <2>9
<1>3. ASSUME created' # created
      PROVE  PTypes' /\ ToldInv' /\ HeardInv' /\ OftenInv'
  <2> DEFINE h == Head(plan)
  <2>1. /\ Write /\ stage = "submit" /\ call = "write" /\ call' = "read" /\ response' = "done"
        /\ created' = Append(created, h) /\ attempt' = attempt /\ connected' = connected
    BY <1>0, <1>3 DEF DoRequest, Connect, WriteThrows, Write, Read
  <2>2. h \in DOMAIN asked /\ h \in ToSet(plan)
    BY <2>1, PlanFacts DEF PlanInv
  <2>3. created \in Seq(DOMAIN asked)
    BY DEF PTypes
  <2>4. created' \in Seq(DOMAIN asked)
    BY <2>1, <2>2, <2>3
  <2>5. PTypes'
    BY <1>0, <2>1, <2>4 DEF PTypes
  <2>6. Contains(created', h) /\ \A x : Contains(created, x) => Contains(created', x)
    BY <2>1, <2>2, <2>3, OccurrenceFacts
  <2>7. ToldInv'
    BY <1>0, <2>6 DEF ToldInv
  <2>8. HeardInv'
    BY <1>0, <2>6 DEF HeardInv
  <2>9. ASSUME NEW i \in DOMAIN asked
        PROVE  Occurrences(created', i) <= Allowed(i)'
    <3>1. Occurrences(created', i) = Occurrences(created, i) + (IF i = h THEN 1 ELSE 0)
      BY <2>1, <2>2, <2>3, OccurrenceFacts
    <3>2. Occurrences(created, i) \in Nat /\ Occurrences(created, i) <= Allowed(i)
      BY <2>1, <2>3, OccurrenceType DEF OftenInv
    <3>3. Allowed(i)' = IF i = h THEN attempt ELSE Allowed(i)
      BY <1>0, <2>1, <2>2 DEF Allowed, Sent
    <3>4. i = h => Allowed(i) = attempt - 1
      BY <2>1, <2>2 DEF Allowed, Sent
    <3>5. CASE i = h
      BY <1>0, <3>1, <3>2, <3>3, <3>4, <3>5
    <3>6. CASE i # h
      <4>1. Allowed(i) \in Nat
        BY <1>0, <2>1 DEF Allowed, Sent
      <4> QED
        BY <3>1, <3>2, <3>3, <3>6, <4>1
    <3> QED
      BY <3>5, <3>6
  <2>10. OftenInv'
    BY <1>0, <2>9 DEF OftenInv
  <2> QED
    BY <2>5, <2>7, <2>8, <2>10
<1> QED
  BY <1>1, <1>2, <1>3

\* Every other step of the tool.
LEMMA ToolStep ==
  ASSUME PInv, Execute, ~DoRequest
  PROVE  PInv'
<1> USE DEF PInv
<1>1. CASE QueryProject \/ SkipQuery \/ Queried
  <2>1. /\ UNCHANGED <<relay, asked, plan, outcomes, created>>
        /\ stage \in {"begin", "query"} /\ stage' \in {"query", "decompose"}
        /\ call' \in {"none", "connect", "write"} /\ attempt' \in {1, 2}
        /\ response' \in {"none", "done", "refused", "exception"}
        /\ call' # "none" => stage' = "query"
    BY <1>1 DEF QueryProject, SkipQuery, Queried, BeginRequest, request, idle, PTypes
  <2>2. PTypes'
    BY <2>1 DEF PTypes
  <2>3. PlanInv' /\ HeardInv' /\ OftenInv'
    BY <2>1 DEF PlanInv, HeardInv, OftenInv
  <2>4. ToldInv'
    BY <2>1 DEF ToldInv
  <2> QED
    BY <2>2, <2>3, <2>4
<1>2. ASSUME NEW reply \in Replies, Decompose(reply)
      PROVE  PInv'
  <2> DEFINE tasks == reply.tasks
  <2>1. /\ UNCHANGED <<relay, outcomes, call, attempt, connected, response, created>>
        /\ stage = "decompose" /\ asked' = tasks /\ call = "none"
        /\ outcomes = <<>> /\ created = <<>> /\ plan = <<>>
        /\ stage' \in {"invalid", "cyclic", "next"}
    BY <1>2 DEF Decompose, request, PTypes
  <2>2. tasks \in Seq(Task)
    BY PlanAssumption
  <2>3. /\ stage' = "cyclic" => DetectCycle(tasks)
        /\ stage' = "next" => ~DetectCycle(tasks) /\ plan' = TopoSort(tasks)
        /\ plan' = plan \/ (~DetectCycle(tasks) /\ plan' = TopoSort(tasks))
    BY <1>2 DEF Decompose
  <2>4. ~DetectCycle(tasks) => /\ TopoSort(tasks) \in Seq(DOMAIN tasks)
                               /\ Len(TopoSort(tasks)) = Len(tasks)
    BY <2>2, OrderFacts
  <2> HIDE DEF tasks
  <2>5. plan' \in Seq(DOMAIN tasks)
    <3>1. <<>> \in Seq(DOMAIN tasks)
      OBVIOUS
    <3> QED
      BY <2>1, <2>3, <2>4, <3>1
  <2>6. <<>> \in Seq((DOMAIN tasks) \X BOOLEAN) /\ <<>> \in Seq(DOMAIN tasks)
    OBVIOUS
  <2>7. PTypes'
    BY <2>1, <2>2, <2>5, <2>6 DEF PTypes
  <2>8. PlanInv'
    <3>1. CASE stage' = "next"
      <4>1. /\ ~DetectCycle(tasks) /\ plan' = TopoSort(tasks) /\ Len(plan') = Len(tasks)
            /\ Len(tasks) \in Nat /\ Len(outcomes') = 0 /\ DOMAIN outcomes' = {}
        BY <2>1, <2>2, <2>3, <2>4, <3>1
      <4>2. Len(outcomes') + Len(plan') = Len(tasks)
        BY <4>1
      <4>3. \A n \in DOMAIN plan' : Len(outcomes') + n = n
        <5>1. \A n \in DOMAIN plan' : n \in Nat
          BY <2>5
        <5> QED
          BY <4>1, <5>1
      <4> QED
        BY <2>1, <3>1, <4>1, <4>2, <4>3 DEF PlanInv
    <3>2. CASE stage' # "next"
      BY <2>1, <2>3, <3>2 DEF PlanInv
    <3> QED
      BY <3>1, <3>2
  <2>9. ToldInv' /\ HeardInv'
    BY <2>1 DEF ToldInv, HeardInv
  <2>10. OftenInv'
    <3>1. \A i : Allowed(i)' \in {0, 2}
      BY <2>1 DEF Allowed
    <3>2. \A i \in DOMAIN tasks : Occurrences(<<>>, i) = 0
      BY OccurrenceFacts, <2>6
    <3> QED
      BY <2>1, <3>1, <3>2 DEF OftenInv
  <2> QED
    BY <2>7, <2>8, <2>9, <2>10
<1>3. CASE Submit
  <2>1. /\ UNCHANGED <<relay, asked, plan, outcomes, created>>
        /\ stage = "next" /\ stage' = "submit" /\ plan # <<>>
        /\ call' \in {"none", "connect", "write"} /\ attempt' \in {1, 2}
        /\ response' \in {"none", "done", "refused", "exception"}
        /\ call' \in {"connect", "write"} => attempt' = 1
        /\ relay = "worker" => response' = "none"
    BY <1>3 DEF Submit, BeginRequest, request, PTypes
  <2>2. PTypes'
    BY <2>1 DEF PTypes
  <2>3. PlanInv'
    BY <2>1 DEF PlanInv
  <2>4. ToldInv' /\ HeardInv'
    BY <2>1 DEF ToldInv, HeardInv
  <2>5. Head(plan) \in ToSet(plan)
    BY <2>1, PlanFacts
  <2>6. \A i : /\ Allowed(i) = IF i \notin ToSet(plan) THEN 2 ELSE 0
               /\ Allowed(i)' \in Nat
               /\ i \notin ToSet(plan) => Allowed(i)' = 2
    <3>1. Sent' \in Nat
      <4>1. CASE call' \in {"connect", "write"}
        <5>1. attempt' = 1
          BY <2>1, <4>1
        <5>2. Sent' = attempt' - 1
          BY <4>1 DEF Sent
        <5>3. 1 - 1 \in Nat
          OBVIOUS
        <5> QED
          BY <5>1, <5>2, <5>3
      <4>2. CASE call' = "none"
        BY <4>2 DEF Sent
      <4> QED
        BY <2>1, <4>1, <4>2
    <3> QED
      BY <2>1, <3>1 DEF Allowed
  <2>7. \A i \in DOMAIN asked : Occurrences(created, i) \in Nat
    BY OccurrenceType DEF PTypes
  <2>8. OftenInv'
    BY <2>1, <2>6, <2>7 DEF OftenInv
  <2> QED
    BY <2>2, <2>3, <2>4, <2>8
<1>4. CASE Submitted
  <2> DEFINE h == Head(plan)
             told == <<h, relay = "worker" /\ response = "done">>
             k == Len(outcomes)
             l == Len(Tail(plan))
  <2>1. /\ UNCHANGED <<relay, asked, call, attempt, connected, response, created>>
        /\ stage = "submit" /\ stage' = "next" /\ call = "none" /\ plan # <<>>
        /\ outcomes' = Append(outcomes, told) /\ plan' = Tail(plan)
    BY <1>4 DEF Submitted, request, idle, PlanInv
  <2>2. /\ h \in DOMAIN asked /\ h \in ToSet(plan) /\ h = TopoSort(asked)[k + 1]
        /\ plan' \in Seq(DOMAIN asked) /\ Len(plan) = l + 1 /\ Len(plan') = l
        /\ \A n \in DOMAIN plan' : plan'[n] = plan[n + 1]
        /\ ToSet(plan) = ToSet(plan') \cup {h} /\ h \notin ToSet(plan')
    BY <2>1, PlanFacts
  <2>3. told \in (DOMAIN asked) \X BOOLEAN /\ told[1] = h
        /\ (told[2] => relay = "worker" /\ response = "done")
    BY <2>2
  <2>4. outcomes \in Seq((DOMAIN asked) \X BOOLEAN) /\ k \in Nat /\ l \in Nat /\ Len(asked) \in Nat
    BY <2>1, <2>2 DEF PTypes
  <2> HIDE DEF told, h
  <2>5. /\ outcomes' \in Seq((DOMAIN asked) \X BOOLEAN) /\ Len(outcomes') = k + 1
        /\ outcomes'[k + 1] = told /\ DOMAIN outcomes = 1 .. k
        /\ \A n \in 1 .. k : outcomes'[n] = outcomes[n]
        /\ DOMAIN outcomes' = 1 .. k + 1 /\ DOMAIN plan' = 1 .. l /\ DOMAIN plan = 1 .. l + 1
    BY <2>1, <2>2, <2>3, <2>4
  <2>6. PTypes'
    BY <2>1, <2>2, <2>5 DEF PTypes
  <2>7. k + (l + 1) = Len(asked)
    BY <2>1, <2>2 DEF PlanInv
  <2> HIDE DEF k, l
  <2>8. /\ \A n \in 1 .. k + 1 : n = k + 1 \/ n \in 1 .. k
        /\ \A n \in 1 .. l : n + 1 \in 1 .. l + 1 /\ k + (n + 1) = (k + 1) + n
        /\ (k + 1) + l = Len(asked)
    BY <2>4, <2>7
  <2>9. PlanInv'
    <3>1. \A n \in 1 .. k + 1 : outcomes'[n][1] = TopoSort(asked)[n]
      BY <2>1, <2>2, <2>3, <2>5, <2>8 DEF PlanInv
    <3>2. \A n \in 1 .. l : plan'[n] = TopoSort(asked)[(k + 1) + n]
      <4>1. \A n \in 1 .. l + 1 : plan[n] = TopoSort(asked)[k + n]
        BY <2>1, <2>5 DEF PlanInv, k
      <4>2. \A n \in 1 .. l : plan'[n] = TopoSort(asked)[k + (n + 1)]
        BY <2>2, <2>5, <2>8, <4>1
      <4> QED
        BY <2>8, <4>2
    <3>3. ~DetectCycle(asked) /\ Len(outcomes') + Len(plan') = Len(asked)
      BY <2>1, <2>2, <2>5, <2>8 DEF PlanInv
    <3> QED
      BY <2>1, <2>5, <3>1, <3>2, <3>3 DEF PlanInv
  <2>10. ToldInv'
    <3>1. told[2] => Contains(created, told[1])
      BY <2>1, <2>3 DEF HeardInv, h
    <3> QED
      BY <2>1, <2>5, <2>8, <3>1 DEF ToldInv
  <2>11. HeardInv'
    BY <2>1 DEF HeardInv
  <2>12. OftenInv'
    <3>1. \A i : Allowed(i)' = IF i \notin ToSet(plan') THEN 2 ELSE 0
      BY <2>1 DEF Allowed
    <3>2. \A i : Allowed(i) = IF i \notin ToSet(plan) \/ i = h THEN 2 ELSE 0
      BY <2>1 DEF Allowed, Sent, h
    <3>3. \A i : Allowed(i)' = Allowed(i)
      BY <2>2, <3>1, <3>2
    <3> QED
      BY <2>1, <3>3 DEF OftenInv
  <2> QED
    BY <2>6, <2>9, <2>10, <2>11, <2>12
<1>5. CASE Summarise
  <2>1. /\ UNCHANGED <<relay, asked, plan, outcomes, request, created>>
        /\ stage = "next" /\ stage' = "done" /\ plan = <<>>
    BY <1>5 DEF Summarise
  <2>2. call = "none"
    BY <2>1 DEF PTypes
  <2>3. PTypes'
    BY <2>1, <2>2 DEF PTypes, request
  <2>4. PlanInv'
    BY <2>1 DEF PlanInv
  <2>5. HeardInv' /\ ToldInv'
    BY <2>1 DEF HeardInv, ToldInv
  <2>6. OftenInv'
    <3>1. \A i : Allowed(i)' = 2 /\ Allowed(i) = 2
      BY <2>1 DEF Allowed, ToSet
    <3> QED
      BY <2>1, <3>1 DEF OftenInv
  <2> QED
    BY <2>3, <2>4, <2>5, <2>6
<1> QED
  BY <1>1, <1>2, <1>3, <1>4, <1>5 DEF Execute

\* The inductive invariant of the tool.
LEMMA PlanFollowed == PSpec => []PInv
<1>1. PInit => PInv
  <2> SUFFICES ASSUME PInit PROVE PInv
    OBVIOUS
  <2>1. \A S : <<>> \in Seq(S)
    OBVIOUS
  <2>2. PTypes
    BY <2>1 DEF PInit, PTypes
  <2> QED
    <3>1. PlanInv /\ HeardInv /\ OftenInv
      BY DEF PInit, PlanInv, HeardInv, OftenInv
    <3>2. ToldInv
      <4>1. outcomes = <<>>
        BY DEF PInit
      <4>2. DOMAIN <<>> = {}
        OBVIOUS
      <4> QED
        BY <4>1, <4>2 DEF ToldInv
    <3> QED
      BY <2>2, <3>1, <3>2 DEF PInv
<1>2. PInv /\ [Execute]_pvars => PInv'
  <2> SUFFICES ASSUME PInv, [Execute]_pvars PROVE PInv'
    OBVIOUS
  <2>1. CASE UNCHANGED pvars
    BY <2>1 DEF pvars, PInv, PTypes, PlanInv, ToldInv, HeardInv, OftenInv, Allowed, Sent
  <2>2. CASE Execute
    BY <2>2, RequestStep, ToolStep
  <2> QED
    BY <2>1, <2>2
<1> QED
  BY <1>1, <1>2, PTL DEF PSpec

\* What has been submitted and what is being submitted is the beginning of the
\* order.
LEMMA OrderKept ==
  ASSUME PInv
  PROVE  SubmittedInOrder
<1> USE DEF PInv
<1> DEFINE told == [n \in DOMAIN outcomes |-> outcomes[n][1]]
           begun == told \o (IF stage = "submit" THEN <<Head(plan)>> ELSE <<>>)
           order == TopoSort(asked)
           k == Len(outcomes)
<1>1. ASSUME NEW n \in DOMAIN begun, NEW t \in Wanted(begun[n])
      PROVE  \E m \in 1 .. n - 1 : asked[begun[m]].title = t
  <2>1. /\ asked \in Seq(Task) /\ outcomes \in Seq((DOMAIN asked) \X BOOLEAN)
        /\ k \in Nat /\ DOMAIN outcomes = 1 .. k
    BY DEF PTypes
  <2>2. told \in Seq(DOMAIN asked) /\ Len(told) = k /\ DOMAIN told = 1 .. k
    BY <2>1
  <2>3. stage \in {"next", "submit", "done"}
    <3>1. CASE stage \notin {"next", "submit", "done"}
      <4>1. outcomes = <<>>
        BY <3>1 DEF PTypes
      <4>2. told = <<>>
        BY <4>1
      <4>3. begun = <<>>
        BY <3>1, <4>2
      <4> QED
        BY <1>1, <4>3
    <3> QED
      BY <3>1
  <2>4. /\ ~DetectCycle(asked) /\ k + Len(plan) = Len(asked)
        /\ \A l \in 1 .. k : told[l] = order[l]
    BY <2>1, <2>3 DEF PlanInv
  <2>5. stage = "submit" => /\ Head(plan) \in DOMAIN asked /\ Head(plan) = order[k + 1]
                            /\ Len(plan) \in Nat \ {0}
    BY <2>3, PlanFacts DEF PlanInv, PTypes
  <2>6. /\ order \in Seq(DOMAIN asked) /\ Len(order) = Len(asked)
        /\ \A l \in DOMAIN order : \A x \in Needs(asked, order[l]) :
             \E m \in 1 .. l - 1 : asked[order[m]].title = x
    BY <2>1, <2>4, OrderFacts
  <2> HIDE DEF told, order, k
  <2>7. /\ DOMAIN begun \subseteq DOMAIN order
        /\ \A l \in DOMAIN begun : begun[l] = order[l] /\ \A m \in 1 .. l - 1 : m \in DOMAIN begun
    <3>1. CASE stage = "submit"
      <4>1. /\ DOMAIN begun = 1 .. k + 1 /\ begun[k + 1] = Head(plan)
            /\ \A l \in 1 .. k : begun[l] = told[l]
        <5> DEFINE one == <<Head(plan)>>
        <5>1. /\ one \in Seq(DOMAIN asked) /\ Len(one) = 1 /\ one[1] = Head(plan)
              /\ begun = told \o one
          BY <2>5, <3>1
        <5>2. Head(plan) \in DOMAIN asked
          BY <2>5, <3>1
        <5> HIDE DEF one, begun
        <5>3. Len(begun) = k + 1 /\ begun \in Seq(DOMAIN asked)
          <6>1. /\ told \o one \in Seq(DOMAIN asked)
                /\ Len(told \o one) = Len(told) + Len(one)
            BY <2>2, <5>1, ConcatProperties
          <6> QED
            BY <2>2, <5>1, <6>1
        <5>4. \A l \in 1 .. k + 1 : begun[l] = IF l <= k THEN told[l] ELSE one[l - k]
          <6>1. \A l \in 1 .. Len(told) + Len(one) :
                  (told \o one)[l] = IF l <= Len(told) THEN told[l] ELSE one[l - Len(told)]
            BY <2>2, <5>1, ConcatProperties
          <6> QED
            BY <2>2, <5>1, <6>1
        <5>5. begun[k + 1] = Head(plan)
          <6>1. k + 1 \in 1 .. k + 1 /\ ~(k + 1 <= k) /\ (k + 1) - k = 1
            BY <2>1
          <6> QED
            BY <5>1, <5>4, <6>1
        <5>6. \A l \in 1 .. k : begun[l] = told[l]
          <6>1. \A l \in 1 .. k : l \in 1 .. k + 1 /\ l <= k
            BY <2>1
          <6> QED
            BY <5>4, <6>1
        <5> QED
          BY <2>1, <5>3, <5>5, <5>6
      <4> HIDE DEF begun
      <4>2. \A l \in 1 .. k + 1 : l = k + 1 \/ l \in 1 .. k
        BY <2>1
      <4>3. k + 1 <= Len(asked) /\ DOMAIN order = 1 .. Len(asked) /\ Len(asked) \in Nat
        BY <2>1, <2>4, <2>5, <2>6, <3>1
      <4> QED
        BY <2>1, <2>4, <2>5, <3>1, <4>1, <4>2, <4>3
    <3>2. CASE stage # "submit"
      <4>1. begun = told
        BY <2>2, <3>2
      <4> HIDE DEF begun
      <4>2. k <= Len(asked) /\ DOMAIN order = 1 .. Len(asked) /\ Len(asked) \in Nat
        <5>1. Len(plan) \in Nat /\ Len(asked) \in Nat
          BY DEF PTypes
        <5> QED
          BY <2>1, <2>4, <2>6, <5>1
      <4> QED
        BY <2>1, <2>2, <2>4, <4>1, <4>2
    <3> QED
      BY <3>1, <3>2
  <2>8. Wanted(begun[n]) = Needs(asked, begun[n])
    BY DEF Wanted, Needs
  <2> HIDE DEF begun
  <2>9. PICK m \in 1 .. n - 1 : asked[order[m]].title = t
    BY <1>1, <2>6, <2>7, <2>8
  <2>10. m \in DOMAIN begun
    BY <1>1, <2>7, <2>9
  <2> QED
    BY <2>7, <2>9, <2>10
<1>2. ASSUME stage = "cyclic"
      PROVE  /\ created = <<>>
             /\ ~\E rank \in [DOMAIN asked -> DOMAIN asked] :
                   \A i, j \in DOMAIN asked :
                     asked[j].title \in Wanted(i) => rank[j] < rank[i]
  <2>1. created = <<>> /\ DetectCycle(asked) /\ asked \in Seq(Task)
    BY <1>2 DEF PTypes, PlanInv
  <2>2. ASSUME NEW rank \in [DOMAIN asked -> DOMAIN asked],
               \A i, j \in DOMAIN asked :
                 asked[j].title \in Wanted(i) => rank[j] < rank[i]
        PROVE  FALSE
    <3>1. \A i, j \in DOMAIN asked :
            asked[j].title \in Needs(asked, i) => rank[j] < rank[i]
      BY <2>2 DEF Wanted, Needs
    <3> QED
      BY <2>1, <3>1, CycleFacts
  <2> QED
    BY <2>1, <2>2
<1> HIDE DEF begun, told
<1>3. SubmittedInOrder
  BY <1>1, <1>2 DEF SubmittedInOrder, begun, told
<1> QED
  BY <1>3

\* At the end the whole plan is in the summary, and what it calls submitted has been.
LEMMA SummaryKept ==
  ASSUME PInv
  PROVE  SummaryIsTrue
<1> USE DEF PInv
<1>1. ASSUME stage = "done"
      PROVE  /\ Len(outcomes) = Len(asked)
             /\ {outcomes[n][1] : n \in DOMAIN outcomes} = DOMAIN asked
  <2>1. /\ plan = <<>> /\ Len(outcomes) + Len(plan) = Len(asked) /\ ~DetectCycle(asked)
        /\ \A n \in DOMAIN outcomes : outcomes[n][1] = TopoSort(asked)[n]
    BY <1>1 DEF PlanInv
  <2>2. /\ asked \in Seq(Task) /\ outcomes \in Seq((DOMAIN asked) \X BOOLEAN)
        /\ Len(outcomes) \in Nat /\ DOMAIN outcomes = 1 .. Len(outcomes)
    BY DEF PTypes
  <2>3. Len(outcomes) = Len(asked)
    BY <2>1, <2>2
  <2>4. /\ TopoSort(asked) \in Seq(DOMAIN asked) /\ Len(TopoSort(asked)) = Len(asked)
        /\ ToSet(TopoSort(asked)) = DOMAIN asked
    BY <2>1, <2>2, OrderFacts
  <2>5. DOMAIN TopoSort(asked) = DOMAIN outcomes
    BY <2>2, <2>3, <2>4
  <2> QED
    BY <2>1, <2>3, <2>4, <2>5 DEF ToSet
<1>2. \A i \in DOMAIN asked : Occurrences(created, i) <= 2
  <2> SUFFICES ASSUME NEW i \in DOMAIN asked
               PROVE  Occurrences(created, i) <= 2
    OBVIOUS
  <2>1. CASE stage \in {"next", "submit", "done"}
    <3>1. Allowed(i) \in {0, 1, 2}
      BY DEF PTypes, Allowed, Sent
    <3>2. Occurrences(created, i) \in Nat /\ Occurrences(created, i) <= Allowed(i)
      BY <2>1, OccurrenceType DEF PTypes, OftenInv
    <3> QED
      BY <3>1, <3>2
  <2>2. CASE stage \notin {"next", "submit", "done"}
    <3>1. created = <<>>
      BY <2>2 DEF PTypes
    <3>2. Occurrences(<<>>, i) = 0
      <4>1. {n \in DOMAIN <<>> : <<>>[n] = i} = {}
        OBVIOUS
      <4> QED
        BY <4>1, FS_EmptySet DEF Occurrences
    <3> QED
      BY <3>1, <3>2
  <2> QED
    BY <2>1, <2>2
<1> QED
  BY <1>1, <1>2 DEF SummaryIsTrue, ToldInv

\* The tasks of a plan are submitted after one of every title they depend on (TopoSort,
\* Execute), and a plan is refused as cyclic only if they cannot be ordered so that every
\* task of such a title comes first (DetectCycle), for any replies of the model.
THEOREM PlanIsOrdered == PSpec => []SubmittedInOrder
<1> QED
  BY PlanFollowed, OrderKept, PTL

\* The summary of a plan has every task of it, and says "submitted" of none that the
\* server has not created; no task is created more than twice, although a request is
\* repeated and its response may get lost (SubmitProjectTask, DoRequest).
THEOREM PlanIsReported == PSpec => []SummaryIsTrue
<1> QED
  BY PlanFollowed, SummaryKept, PTL
=============================================================================
