-------------------------- MODULE TaskRuntimeProofs --------------------------
(***************************************************************************)
(* Theorems about TaskRuntime for every choice of its constants: types and *)
(* the invariants of claims, records and custody; then, without timeouts   *)
(* and without lost calls, that TaskRuntime implements TaskCustody and     *)
(* that what the server was told about a task stands.                      *)
(***************************************************************************)
EXTENDS TaskRuntimeInv, TLAPS

\* A report, kept or lost, leaves a status at the server.
LEMMA ReportType ==
  ASSUME server \in [Tasks -> ServerStatus], NEW t,
         NEW status \in ServerStatus, Report(t, status)
  PROVE  server' \in [Tasks -> ServerStatus]
BY DEF Report

\* Every step keeps the typing layer: types, what a poll loop holds, what the
\* inbound thread handles, and the records under the key of their agent.
LEMMA TypeStep == TypeInv /\ [Next]_vars => TypeInv'
<1> SUFFICES ASSUME TypeInv, [Next]_vars PROVE TypeInv'
  OBVIOUS
<1> USE RuntimeAssumption
        DEF TypeInv, TypeOK, OfferInv, InbInv, DownInv, RecordInv, Keys,
            ServerStatus, PollPc, ExecPc, WdPc, InbPc, pollVars, execVars,
            inbVars, recVars, procVars
<1>1. CASE Next
<2>1. ASSUME NEW a \in Agents, PollCheck(a)
      PROVE  TypeInv'
  BY <2>1 DEF PollCheck
<2>2. ASSUME NEW a \in Agents, ClaimNothing(a)
      PROVE  TypeInv'
  BY <2>2 DEF ClaimNothing
<2>3. ASSUME NEW a \in Agents, SkipClaimed(a)
      PROVE  TypeInv'
  BY <2>3 DEF SkipClaimed
<2>4. ASSUME NEW a \in Agents, RecordClaim(a)
      PROVE  TypeInv'
  BY <2>4 DEF RecordClaim, SaveState
<2>5. ASSUME NEW a \in Agents, SubmitClaim(a)
      PROVE  TypeInv'
  BY <2>5 DEF SubmitClaim
<2>6. ASSUME NEW a \in Agents, PollWake(a)
      PROVE  TypeInv'
  BY <2>6 DEF PollWake
<2>7. ASSUME NEW a \in Agents, NEW t \in Tasks, ClaimFound(a, t)
      PROVE  TypeInv'
  BY <2>7 DEF ClaimFound
<2>8. ASSUME NEW a \in Agents, NEW t \in Tasks, ClaimAnswerLost(a, t)
      PROVE  TypeInv'
  BY <2>8 DEF ClaimAnswerLost
<2>9. ASSUME TakeFromPool
      PROVE  TypeInv'
  BY <2>9 DEF TakeFromPool
<2>10. ASSUME NEW t \in Tasks, ReportClaimed(t)
      PROVE  TypeInv'
  BY <2>10 DEF ReportClaimed, Report, ExecStep
<2>11. ASSUME NEW t \in Tasks, ReportRunning(t)
      PROVE  TypeInv'
  BY <2>11 DEF ReportRunning, Report, ExecStep
<2>12. ASSUME NEW t \in Tasks, CloneFails(t)
      PROVE  TypeInv'
  BY <2>12 DEF CloneFails, Report, ExecStep
<2>13. ASSUME NEW t \in Tasks, ClearAfterClone(t)
      PROVE  TypeInv'
  BY <2>13 DEF ClearAfterClone, ExecStep, ClearActiveTask
<2>14. ASSUME NEW t \in Tasks, Prepared(t)
      PROVE  TypeInv'
  BY <2>14 DEF Prepared, ExecStep
<2>15. ASSUME NEW t \in Tasks, EnterDirect(t)
      PROVE  TypeInv'
  BY <2>15 DEF EnterDirect, ExecStep
<2>16. ASSUME NEW t \in Tasks, ReportPhase(t)
      PROVE  TypeInv'
  <3>1. server' \in [Tasks -> ServerStatus]
    BY <2>16, ReportType DEF ReportPhase
  <3> QED BY <2>16, <3>1 DEF ReportPhase
<2>17. ASSUME NEW t \in Tasks, DirectReturns(t)
      PROVE  TypeInv'
  BY <2>17 DEF DirectReturns, ExecStep
<2>18. ASSUME NEW t \in Tasks, DirectThrows(t)
      PROVE  TypeInv'
  BY <2>18 DEF DirectThrows, ExecStep
<2>19. ASSUME NEW t \in Tasks, StoreWaiting(t)
      PROVE  TypeInv'
  BY <2>19 DEF StoreWaiting, ExecStep, ClearActiveTask, SaveState
<2>20. ASSUME NEW t \in Tasks, ReportWaiting(t)
      PROVE  TypeInv'
  BY <2>20 DEF ReportWaiting, Report, ExecStep
<2>21. ASSUME NEW t \in Tasks, EnterVerify(t)
      PROVE  TypeInv'
  BY <2>21 DEF EnterVerify, ExecStep
<2>22. ASSUME NEW t \in Tasks, SkipVerify(t)
      PROVE  TypeInv'
  BY <2>22 DEF SkipVerify, ExecStep
<2>23. ASSUME NEW t \in Tasks, Verdict(t)
      PROVE  TypeInv'
  BY <2>23 DEF Verdict, ExecStep
<2>24. ASSUME NEW t \in Tasks, ClearActive(t)
      PROVE  TypeInv'
  BY <2>24 DEF ClearActive, ExecStep, ClearActiveTask
<2>25. ASSUME NEW t \in Tasks, ReportOutcome(t)
      PROVE  TypeInv'
  <3>0. PICK status \in {"completed", "failed"} : Report(t, status)
    BY <2>25 DEF ReportOutcome
  <3>1. server' \in [Tasks -> ServerStatus]
    BY <3>0, ReportType
  <3>2. exec' \in [Tasks -> ExecPc] /\ exec[t] # "none"
    BY <2>25 DEF ReportOutcome, ExecStep
  <3>3. TypeOK'
    BY <2>25, <3>1, <3>2 DEF ReportOutcome
  <3>4. OfferInv' /\ InbInv' /\ DownInv' /\ RecordInv'
    BY <2>25, <3>2 DEF ReportOutcome
  <3> QED BY <3>3, <3>4
<2>26. ASSUME NEW t \in Tasks, NEW c \in Chats, AskUser(t, c)
      PROVE  TypeInv'
  BY <2>26 DEF AskUser
<2>27. ASSUME NEW t \in Tasks, WatchdogStops(t)
      PROVE  TypeInv'
  BY <2>27 DEF WatchdogStops
<2>28. ASSUME NEW t \in Tasks, WatchdogCancels(t)
      PROVE  TypeInv'
  BY <2>28 DEF WatchdogCancels
<2>29. ASSUME NEW t \in Tasks, WatchdogAbandons(t)
      PROVE  TypeInv'
  BY <2>29 DEF WatchdogAbandons, ClearActiveTask
<2>30. ASSUME NEW t \in Tasks, WatchdogReports(t)
      PROVE  TypeInv'
  BY <2>30 DEF WatchdogReports, Report
<2>31. ASSUME ResumeReportRunning
      PROVE  TypeInv'
  BY <2>31 DEF ResumeReportRunning, Report, InbStep
<2>32. ASSUME InbEnter
      PROVE  TypeInv'
  BY <2>32 DEF InbEnter, InbStep
<2>33. ASSUME InbReturns
      PROVE  TypeInv'
  BY <2>33 DEF InbReturns, InbStep
<2>34. ASSUME StoreWaitingAgain
      PROVE  TypeInv'
  <3> USE <2>34 DEF StoreWaitingAgain, SaveState, InbStep
  <3>1. inbAgent \in Agents /\ <<inbAgent, inbAsked>> \in Keys
    OBVIOUS
  <3>2. waiting' \in [Keys -> Tasks \cup {None, Unnamed}] /\ disk' = waiting'
    BY <3>1
  <3>3. TypeOK'
    BY <3>2 DEF Report
  <3>4. RecordInv'
    BY <3>1, <3>2
  <3>5. OfferInv' /\ InbInv' /\ DownInv'
    OBVIOUS
  <3> QED BY <3>3, <3>4, <3>5
<2>35. ASSUME ResumeReportOutcome
      PROVE  TypeInv'
  BY <2>35 DEF ResumeReportOutcome, Report, InbStep
<2>36. ASSUME ObserveReply
      PROVE  TypeInv'
  <3> USE <2>36 DEF ObserveReply, EraseRecord, SaveState, InbStep
  <3>1. CASE UNCHANGED recVars
    BY <3>1
  <3>2. ASSUME NEW record \in {Unnamed, None}, disk' = waiting',
               waiting' = [waiting EXCEPT ![<<inbAgent, inbChat>>] = record]
        PROVE  TypeInv'
    <4>1. <<inbAgent, inbChat>> \in Keys
      OBVIOUS
    <4>2. waiting' \in [Keys -> Tasks \cup {None, Unnamed}]
      BY <3>2
    <4>3. TypeOK'
      BY <3>2, <4>2
    <4>4. \A k \in Keys : waiting'[k] \in Tasks => waiting'[k] = waiting[k]
      BY <3>2, <4>1
    <4>5. RecordInv'
      BY <3>2, <4>4
    <4>6. OfferInv' /\ InbInv' /\ DownInv'
      BY <4>4
    <4> QED BY <4>3, <4>5, <4>6
  <3> QED BY <3>1, <3>2
<2>37. ASSUME NEW c \in Chats, ResumeAsks(c)
      PROVE  TypeInv'
  BY <2>37 DEF ResumeAsks
<2>38. ASSUME NEW a \in Agents, NEW c \in Chats, Intercept(a, c)
      PROVE  TypeInv'
  <3> USE <2>38 DEF Intercept, EraseRecord, SaveState, InbStep
  <3>1. /\ <<a, c>> \in Keys /\ inbTask' = waiting[<<a, c>>]
        /\ inbAgent' = a /\ inbChat' = c /\ phase # "down"
    OBVIOUS
  <3>2. OfferInv' /\ InbInv'
    BY <3>1
  <3>3. CASE UNCHANGED recVars
    BY <3>1, <3>2, <3>3
  <3>4. CASE waiting' = [waiting EXCEPT ![<<a, c>>] = None] /\ disk' = waiting'
    <4>1. waiting' \in [Keys -> Tasks \cup {None, Unnamed}]
      BY <3>4
    <4>2. TypeOK'
      BY <3>1, <3>4, <4>1
    <4>3. \A k \in Keys : waiting'[k] \in Tasks => waiting'[k] = waiting[k]
      BY <3>1, <3>4
    <4>4. RecordInv'
      BY <3>4, <4>3
    <4>5. DownInv'
      BY <3>1, <4>3
    <4> QED BY <3>2, <4>2, <4>4, <4>5
  <3> QED BY <3>3, <3>4
<2>39. ASSUME StopRequested
      PROVE  TypeInv'
  BY <2>39 DEF StopRequested
<2>40. ASSUME StopReturns
      PROVE  TypeInv'
  BY <2>40 DEF StopReturns, SaveState
<2>41. ASSUME ProcessEnds
      PROVE  TypeInv'
  BY <2>41 DEF ProcessEnds
<2>42. ASSUME ProcessStarts
      PROVE  TypeInv'
  BY <2>42 DEF ProcessStarts
<2>43. ASSUME RuntimeStarts
      PROVE  TypeInv'
  BY <2>43 DEF RuntimeStarts
<2> QED
  BY <1>1, <2>1, <2>2, <2>3, <2>4, <2>5, <2>6, <2>7, <2>8, <2>9,
     <2>10, <2>11, <2>12, <2>13, <2>14, <2>15, <2>16, <2>17, <2>18, <2>19,
     <2>20, <2>21, <2>22, <2>23, <2>24, <2>25, <2>26, <2>27, <2>28, <2>29,
     <2>30, <2>31, <2>32, <2>33, <2>34, <2>35, <2>36, <2>37, <2>38, <2>39,
     <2>40, <2>41, <2>42, <2>43
  DEF Next, PollNext, ExecNext, WdNext, InbNext, ProcessNext
<1>2. CASE UNCHANGED vars
  BY <1>2 DEF vars
<1> QED BY <1>1, <1>2

\* The variables of the runtime keep their types, and threads, records and
\* agents stay matched (TypeInv, with TypeOK as its first part).
THEOREM TypeCorrect == Spec => []TypeInv
<1>1. Init => TypeInv
  BY RuntimeAssumption DEF Init, TypeInv, TypeOK, OfferInv, InbInv, DownInv,
     RecordInv, Keys, ServerStatus, PollPc, ExecPc, WdPc, InbPc
<1>2. QED BY <1>1, TypeStep, PTL DEF Spec

\* The types alone, as the runs check them.
COROLLARY TypesHold == Spec => []TypeOK
<1>1. TypeInv => TypeOK
  BY DEF TypeInv
<1>2. QED BY <1>1, TypeCorrect, PTL

----------------------------------------------------------------------------
(* What the steps of each thread change. *)

\* A worker moves its own execution forward, within the pool's bookkeeping,
\* and it takes the mark of its agent away exactly when it gives the task up.
ExecMoves(t) ==
  /\ UNCHANGED <<queue, claimed, pollVars, phase>>
  /\ exec[t] \notin {"none", "queued", "done"}
  /\ exec' = [exec EXCEPT ![t] = exec'[t]]
  /\ exec'[t] \in ExecPc \ {"none", "queued"}
  /\ exec[t] = "claiming" <=> exec'[t] = "starting"
  /\ \A u \in Tasks : wd'[u] # "off" => TimeoutOn \/ wd[u] # "off"
  /\ \/ active' = active /\ UnderExecution(t)' = UnderExecution(t)
     \/ /\ active' = [active EXCEPT ![AgentOf[t]] = None]
        /\ UnderExecution(t)
        /\ exec'[t] \in {"waitStored", "completing", "failing", "done"}

\* Every step of a worker is such a move.
LEMMA ExecEffect ==
  ASSUME TypeInv, NEW t \in Tasks, ExecNext(t)
  PROVE  ExecMoves(t)
<1> USE RuntimeAssumption
        DEF TypeInv, TypeOK, ExecPc, pollVars, execVars, procVars, ExecStep,
            UnderExecution, ClearActiveTask, ExecMoves
<1>1. CASE ReportClaimed(t)
  BY <1>1 DEF ReportClaimed
<1>2. CASE ReportRunning(t)
  BY <1>2 DEF ReportRunning
<1>3. CASE CloneFails(t)
  BY <1>3 DEF CloneFails
<1>4. CASE ClearAfterClone(t)
  BY <1>4 DEF ClearAfterClone
<1>5. CASE Prepared(t)
  BY <1>5 DEF Prepared
<1>6. CASE EnterDirect(t)
  BY <1>6 DEF EnterDirect
<1>7. CASE ReportPhase(t)
  BY <1>7 DEF ReportPhase
<1>8. CASE DirectReturns(t)
  BY <1>8 DEF DirectReturns
<1>9. CASE DirectThrows(t)
  BY <1>9 DEF DirectThrows
<1>10. CASE StoreWaiting(t)
  BY <1>10 DEF StoreWaiting
<1>11. CASE ReportWaiting(t)
  BY <1>11 DEF ReportWaiting
<1>12. CASE EnterVerify(t)
  BY <1>12 DEF EnterVerify
<1>13. CASE SkipVerify(t)
  BY <1>13 DEF SkipVerify
<1>14. CASE Verdict(t)
  BY <1>14 DEF Verdict
<1>15. CASE ClearActive(t)
  BY <1>15 DEF ClearActive
<1>16. CASE ReportOutcome(t)
  BY <1>16 DEF ReportOutcome
<1>17. ASSUME NEW c \in Chats, AskUser(t, c) PROVE ExecMoves(t)
  BY <1>17 DEF AskUser
<1> QED
  BY <1>1, <1>2, <1>3, <1>4, <1>5, <1>6, <1>7, <1>8, <1>9, <1>10,
     <1>11, <1>12, <1>13, <1>14, <1>15, <1>16, <1>17 DEF ExecNext

\* A watchdog touches nothing but its own place, the mark and the server.
LEMMA WdEffect ==
  ASSUME NEW t \in Tasks, WdNext(t)
  PROVE  /\ UNCHANGED <<procVars, pollVars, claimed, recVars, execVars, inbVars>>
         /\ wd[t] # "off"
         /\ active' = active \/ active' = [active EXCEPT ![AgentOf[t]] = None]
BY DEF WdNext, WatchdogStops, WatchdogCancels, WatchdogAbandons,
       WatchdogReports, ClearActiveTask

\* The inbound thread leaves claims, marks and executions alone.
LEMMA InbEffect ==
  ASSUME InbNext
  PROVE  UNCHANGED <<procVars, pollVars, active, claimed, execVars, wd>>
BY DEF InbNext, Intercept, ResumeReportRunning, InbEnter, ResumeAsks,
       InbReturns, StoreWaitingAgain, ResumeReportOutcome, ObserveReply

\* A poll loop changes nobody else's place, and of the executions only the
\* one it submits. It claims and marks only when it has seen no mark.
LEMMA PollEffect ==
  ASSUME TypeInv, PoolInv, NEW a \in Agents, PollNext(a)
  PROVE  /\ UNCHANGED <<procVars, asked, wd, inbVars, waiting>>
         /\ \A b \in Agents \ {a} :
              poll'[b] = poll[b] /\ offer'[b] = offer[b] /\ active'[b] = active[b]
         /\ \/ UNCHANGED exec /\ poll[a] # "submit"
            \/ /\ poll[a] = "submit" /\ poll'[a] = "sleep"
               /\ offer[a] \in Tasks /\ AgentOf[offer[a]] = a
               /\ exec[offer[a]] = "none" /\ UNCHANGED active
               /\ exec' = [exec EXCEPT ![offer[a]] = "queued"]
         /\ \/ active' = active /\ poll'[a] # "submit"
            \/ /\ poll[a] = "offered" /\ poll'[a] = "submit"
               /\ offer[a] \in Tasks /\ AgentOf[offer[a]] = a
               /\ offer' = offer
               /\ active' = [active EXCEPT ![a] = offer[a]]
<1> USE DEF TypeInv, TypeOK, OfferInv, PoolInv, pollVars, execVars, procVars,
        recVars, inbVars
<1>1. CASE PollCheck(a)
  BY <1>1 DEF PollCheck, PollPc
<1>2. CASE ClaimNothing(a)
  BY <1>2 DEF ClaimNothing
<1>3. CASE SkipClaimed(a)
  BY <1>3 DEF SkipClaimed
<1>4. CASE RecordClaim(a)
  BY <1>4 DEF RecordClaim
<1>5. CASE SubmitClaim(a)
  BY <1>5 DEF SubmitClaim
<1>6. CASE PollWake(a)
  BY <1>6 DEF PollWake
<1>7. ASSUME NEW t \in Tasks, ClaimFound(a, t) \/ ClaimAnswerLost(a, t)
      PROVE  /\ UNCHANGED <<procVars, active, recVars, execVars, wd, inbVars>>
             /\ poll[a] = "claim" /\ poll'[a] # "submit"
             /\ \A b \in Agents \ {a} : poll'[b] = poll[b] /\ offer'[b] = offer[b]
  BY <1>7 DEF ClaimFound, ClaimAnswerLost
<1> QED BY <1>1, <1>2, <1>3, <1>4, <1>5, <1>6, <1>7 DEF PollNext

----------------------------------------------------------------------------
(* The records on disk. *)

\* A step that changes a record saves it; a restart loads what was saved.
LEMMA SaveStep == RecordsSaved /\ [Next]_vars => RecordsSaved'
<1> SUFFICES ASSUME RecordsSaved, [Next]_vars PROVE RecordsSaved'
  OBVIOUS
<1> USE DEF RecordsSaved, recVars, procVars, SaveState, EraseRecord
<1>1. ASSUME NEW a \in Agents, PollNext(a) PROVE RecordsSaved'
  BY <1>1 DEF PollNext, PollCheck, ClaimFound, ClaimNothing, ClaimAnswerLost,
     SkipClaimed, RecordClaim, SubmitClaim, PollWake
<1>2. CASE TakeFromPool
  BY <1>2 DEF TakeFromPool
<1>3. ASSUME NEW t \in Tasks, ExecNext(t) PROVE RecordsSaved'
  BY <1>3 DEF ExecNext, ReportClaimed, ReportRunning, CloneFails,
     ClearAfterClone, Prepared, EnterDirect, ReportPhase, AskUser,
     DirectReturns, DirectThrows, StoreWaiting, ReportWaiting, EnterVerify,
     SkipVerify, Verdict, ClearActive, ReportOutcome
<1>4. ASSUME NEW t \in Tasks, WdNext(t) PROVE RecordsSaved'
  BY <1>4, WdEffect
<1>5. CASE InbNext
  BY <1>5 DEF InbNext, Intercept, ResumeReportRunning, InbEnter, ResumeAsks,
     InbReturns, StoreWaitingAgain, ResumeReportOutcome, ObserveReply
<1>6. CASE ProcessNext
  <2>1. CASE RuntimeStarts
    BY <2>1 DEF RuntimeStarts
  <2>2. CASE StopRequested \/ StopReturns
    BY <2>2 DEF StopRequested, StopReturns
  <2>3. CASE ProcessEnds \/ ProcessStarts
    BY <2>3 DEF ProcessEnds, ProcessStarts
  <2> QED BY <1>6, <2>1, <2>2, <2>3 DEF ProcessNext
<1>7. CASE UNCHANGED vars
  BY <1>7 DEF vars
<1> QED BY <1>1, <1>2, <1>3, <1>4, <1>5, <1>6, <1>7 DEF Next

\* The waiting records a crash leaves on disk are those the runtime held.
THEOREM RecordsAlwaysSaved == Spec => []RecordsSaved
<1>1. Init => RecordsSaved
  BY DEF Init, RecordsSaved
<1>2. QED BY <1>1, SaveStep, PTL DEF Spec

----------------------------------------------------------------------------
(* One execution per claim. *)

\* Every step keeps the bookkeeping of claims, submissions and the queue.
LEMMA PoolStep == TypeInv /\ PoolInv /\ [Next]_vars => PoolInv'
<1> SUFFICES ASSUME TypeInv, PoolInv, [Next]_vars PROVE PoolInv'
  OBVIOUS
<1> USE RuntimeAssumption DEF PoolInv, TypeInv, TypeOK, OfferInv, pollVars,
        execVars, procVars
<1>1. ASSUME NEW a \in Agents, PollNext(a) PROVE PoolInv'
  <2>1. CASE PollCheck(a) \/ ClaimNothing(a) \/ PollWake(a)
    BY <2>1 DEF PollCheck, ClaimNothing, PollWake, InQueue
  <2>4. CASE SkipClaimed(a)
    BY <2>4 DEF SkipClaimed, InQueue
  <2>5. ASSUME NEW t \in Tasks, ClaimFound(a, t) PROVE PoolInv'
    BY <2>5 DEF ClaimFound, InQueue
  <2>6. ASSUME NEW t \in Tasks, ClaimAnswerLost(a, t) PROVE PoolInv'
    BY <2>6 DEF ClaimAnswerLost, InQueue
  <2>2. CASE RecordClaim(a)
    BY <2>2 DEF RecordClaim, InQueue
  <2>3. CASE SubmitClaim(a)
    <3> USE <2>3 DEF SubmitClaim
    <3> DEFINE t == offer[a]
    <3>1. /\ t \in Tasks /\ t \in claimed /\ exec[t] = "none"
          /\ exec' = [exec EXCEPT ![t] = "queued"]
          /\ Len(queue') = Len(queue) + 1
          /\ \A i \in 1..Len(queue) : queue'[i] = queue[i]
          /\ queue'[Len(queue) + 1] = t
      OBVIOUS
    <3>2. \A i \in 1..Len(queue) : queue[i] \in Tasks /\ queue[i] # t
      BY <3>1
    <3>3. \A b \in Agents : poll'[b] = "submit" => b # a /\ offer'[b] = offer[b]
      OBVIOUS
    <3>4. \A b \in Agents : poll'[b] = "submit" => offer[b] # t
      BY <3>3
    <3>5. \A u \in Tasks : exec'[u] # "none" => u \in claimed'
      BY <3>1
    <3>6. \A b \in Agents : poll'[b] = "submit" =>
            offer'[b] \in claimed' /\ exec'[offer'[b]] = "none"
      BY <3>1, <3>3, <3>4
    <3>7. \A i \in 1..Len(queue') : exec'[queue'[i]] = "queued"
      BY <3>1, <3>2
    <3>8. \A i, j \in 1..Len(queue') : queue'[i] = queue'[j] => i = j
      BY <3>1, <3>2
    <3>9. \A u \in Tasks : exec'[u] = "queued" => InQueue(u)'
      BY <3>1 DEF InQueue
    <3> QED BY <3>5, <3>6, <3>7, <3>8, <3>9
  <2> QED BY <1>1, <2>1, <2>2, <2>3, <2>4, <2>5, <2>6 DEF PollNext
<1>2. CASE TakeFromPool
  <2> USE <1>2 DEF TakeFromPool
  <2>1. /\ Len(queue) # 0 /\ Head(queue) = queue[1]
        /\ Len(queue') = Len(queue) - 1
        /\ \A i \in 1..Len(queue') : queue'[i] = queue[i + 1]
    OBVIOUS
  <2>2. queue[1] \in Tasks /\ exec[queue[1]] = "queued"
    BY <2>1
  <2>3. \A i \in 1..Len(queue') : queue'[i] \in Tasks /\ queue'[i] # queue[1]
    BY <2>1
  <2>4. \A i \in 1..Len(queue') : exec'[queue'[i]] = "queued"
    BY <2>1, <2>3
  <2>5. \A i, j \in 1..Len(queue') : queue'[i] = queue'[j] => i = j
    BY <2>1
  <2>6. /\ \A u \in Tasks : exec'[u] # "none" => u \in claimed'
        /\ \A b \in Agents : poll'[b] = "submit" =>
             offer'[b] \in claimed' /\ exec'[offer'[b]] = "none"
    BY <2>1, <2>2
  <2>7. ASSUME NEW u \in Tasks, exec'[u] = "queued" PROVE InQueue(u)'
    <3>1. exec[u] = "queued" /\ u # queue[1]
      BY <2>1, <2>7
    <3>2. PICK i \in 1..Len(queue) : queue[i] = u
      BY <3>1 DEF InQueue
    <3>3. i - 1 \in 1..Len(queue') /\ queue'[i - 1] = u
      BY <2>1, <3>1, <3>2
    <3> QED BY <3>3 DEF InQueue
  <2> QED BY <2>4, <2>5, <2>6, <2>7
<1>3. ASSUME NEW t \in Tasks, ExecNext(t) PROVE PoolInv'
  <2>1. ExecMoves(t)
    BY <1>3, ExecEffect
  <2>2. \A i \in 1..Len(queue) : queue[i] \in Tasks /\ queue[i] # t
    BY <2>1 DEF ExecMoves
  <2>3. \A u \in Tasks : exec'[u] = "queued" => InQueue(u)'
    BY <2>1 DEF ExecMoves, InQueue
  <2> QED BY <2>1, <2>2, <2>3 DEF ExecMoves
<1>4. ASSUME NEW t \in Tasks, WdNext(t) PROVE PoolInv'
  BY <1>4, WdEffect DEF InQueue
<1>5. CASE InbNext
  BY <1>5, InbEffect DEF InQueue
<1>6. CASE ProcessNext
  <2>1. CASE RuntimeStarts
    BY <2>1 DEF RuntimeStarts, DownInv
  <2>2. CASE StopRequested \/ StopReturns \/ ProcessStarts
    BY <2>2 DEF StopRequested, StopReturns, ProcessStarts, InQueue
  <2>3. CASE ProcessEnds
    BY <2>3 DEF ProcessEnds
  <2> QED BY <1>6, <2>1, <2>2, <2>3 DEF ProcessNext
<1>7. CASE UNCHANGED vars
  BY <1>7 DEF vars, InQueue
<1> QED BY <1>1, <1>2, <1>3, <1>4, <1>5, <1>6, <1>7 DEF Next

\* The bookkeeping of claims and submissions holds throughout.
THEOREM PoolAlwaysSound == Spec => []PoolInv
<1>1. Init => PoolInv
  BY DEF Init, PoolInv
<1>2. QED BY <1>1, PoolStep, TypeCorrect, PTL DEF Spec

\* No task is handed to the pool a second time in one run of the process,
\* however often the server offers it.
THEOREM RunsOnce == Spec => ExecutedOnce
<1>1. TypeInv /\ PoolInv /\ [Next]_vars =>
        [\A t \in Tasks : exec'[t] = "queued" => exec[t] \in {"none", "queued"}]_vars
  <2> SUFFICES ASSUME TypeInv, PoolInv, Next, NEW t \in Tasks,
                      exec'[t] = "queued"
               PROVE  exec[t] \in {"none", "queued"}
    OBVIOUS
  <2> USE RuntimeAssumption DEF PoolInv, TypeInv, TypeOK, OfferInv, pollVars,
          execVars, procVars
  <2>1. ASSUME NEW a \in Agents, PollNext(a) PROVE exec[t] \in {"none", "queued"}
    BY <2>1, PollEffect
  <2>2. CASE TakeFromPool
    BY <2>2 DEF TakeFromPool
  <2>3. ASSUME NEW u \in Tasks, ExecNext(u) PROVE exec[t] \in {"none", "queued"}
    BY <2>3, ExecEffect DEF ExecMoves
  <2>4. ASSUME NEW u \in Tasks, WdNext(u) PROVE exec[t] \in {"none", "queued"}
    BY <2>4, WdEffect
  <2>5. CASE InbNext
    BY <2>5, InbEffect
  <2>6. CASE ProcessNext
    BY <2>6 DEF ProcessNext, StopRequested, StopReturns, ProcessEnds,
       ProcessStarts, RuntimeStarts
  <2> QED BY <2>1, <2>2, <2>3, <2>4, <2>5, <2>6 DEF Next
<1>2. QED BY <1>1, TypeCorrect, PoolAlwaysSound, PTL DEF Spec, ExecutedOnce

----------------------------------------------------------------------------
(* The mark of the active task. *)

\* Every step keeps a mark only on a task that is under execution.
LEMMA MarkStep == TypeInv /\ PoolInv /\ NoStuckMark /\ [Next]_vars => NoStuckMark'
<1> SUFFICES ASSUME TypeInv, PoolInv, NoStuckMark, [Next]_vars,
                    NEW a \in Agents, NEW m \in Tasks, active'[a] = m
             PROVE  AgentOf[m] = a /\ UnderExecution(m)'
  BY TypeStep DEF NoStuckMark, TypeInv, TypeOK
<1> DEFINE Marked == AgentOf[m] = a /\ UnderExecution(m)'
<1> USE RuntimeAssumption DEF TypeInv, TypeOK, NoStuckMark, UnderExecution,
        pollVars, execVars, procVars
<1>1. ASSUME NEW b \in Agents, PollNext(b) PROVE Marked
  <2>1. CASE UNCHANGED <<active, exec>> /\ poll[b] # "submit"
    BY <1>1, <2>1, PollEffect
  <2>2. CASE UNCHANGED active /\ poll[b] = "submit"
    BY <1>1, <2>2, PollEffect
  <2>3. CASE poll[b] = "offered" /\ active' = [active EXCEPT ![b] = offer[b]]
    BY <1>1, <2>3, PollEffect
  <2> QED BY <1>1, <2>1, <2>2, <2>3, PollEffect
<1>2. CASE TakeFromPool
  <2>1. queue[1] \in Tasks /\ Head(queue) = queue[1] /\ exec[queue[1]] = "queued"
    BY <1>2 DEF TakeFromPool, PoolInv
  <2> QED BY <1>2, <2>1 DEF TakeFromPool
<1>3. ASSUME NEW t \in Tasks, ExecNext(t) PROVE Marked
  <2>1. ExecMoves(t)
    BY <1>3, ExecEffect
  <2>2. CASE active' = active /\ UnderExecution(t)' = UnderExecution(t)
    BY <2>1, <2>2 DEF ExecMoves
  <2>3. CASE active' = [active EXCEPT ![AgentOf[t]] = None]
    BY <2>1, <2>3 DEF ExecMoves
  <2> QED BY <2>1, <2>2, <2>3 DEF ExecMoves
<1>4. ASSUME NEW t \in Tasks, WdNext(t) PROVE Marked
  BY <1>4, WdEffect
<1>5. CASE InbNext
  BY <1>5, InbEffect
<1>6. CASE ProcessNext
  BY <1>6 DEF ProcessNext, StopRequested, StopReturns, ProcessEnds,
     ProcessStarts, RuntimeStarts, DownInv
<1>7. CASE UNCHANGED vars
  BY <1>7 DEF vars
<1> QED BY <1>1, <1>2, <1>3, <1>4, <1>5, <1>6, <1>7 DEF Next

\* An agent never keeps the mark of a task that nobody executes, which would
\* keep it from claiming for ever: with and without timeouts, lost calls and
\* crashes.
THEOREM MarksNeverStick == Spec => []NoStuckMark
<1>1. Init => NoStuckMark
  BY DEF Init, NoStuckMark
<1>2. QED BY <1>1, MarkStep, TypeCorrect, PoolAlwaysSound, PTL DEF Spec

\* Without timeouts, every step keeps the mark on what is under execution.
LEMMA ActiveStep ==
  ASSUME ~TimeoutOn
  PROVE  TypeInv /\ PoolInv /\ ActiveInv /\ [Next]_vars => ActiveInv'
<1> SUFFICES ASSUME TypeInv, PoolInv, ActiveInv, [Next]_vars PROVE ActiveInv'
  OBVIOUS
<1> USE RuntimeAssumption DEF TypeInv, TypeOK, ActiveInv, ActiveMarksExecution,
        UnderExecution, pollVars, execVars, procVars
<1>1. ASSUME NEW a \in Agents, PollNext(a) PROVE ActiveInv'
  <2>1. /\ wd' = wd
        /\ \A b \in Agents \ {a} : poll'[b] = poll[b] /\ active'[b] = active[b]
    BY <1>1, PollEffect
  <2>2. poll'[a] \in {"claim", "offered"} => active'[a] = None
    BY <1>1 DEF PollNext, PollCheck, ClaimFound, ClaimNothing, ClaimAnswerLost,
       SkipClaimed, RecordClaim, SubmitClaim, PollWake, HasPending
  <2>3. ASSUME NEW t \in Tasks, UnderExecution(t)'
        PROVE  active'[AgentOf[t]] = t
    <3>1. CASE UNCHANGED <<active, exec>> /\ poll[a] # "submit"
      BY <1>1, <2>3, <3>1, PollEffect
    <3>2. CASE UNCHANGED active /\ poll[a] = "submit"
      BY <1>1, <2>3, <3>2, PollEffect
    <3>3. CASE poll[a] = "offered" /\ active' = [active EXCEPT ![a] = offer[a]]
      BY <1>1, <2>3, <3>3, PollEffect
    <3> QED BY <1>1, <3>1, <3>2, <3>3, PollEffect
  <2> QED BY <2>1, <2>2, <2>3
<1>2. CASE TakeFromPool
  <2>1. queue[1] \in Tasks /\ Head(queue) = queue[1] /\ exec[queue[1]] = "queued"
    BY <1>2 DEF TakeFromPool, PoolInv
  <2> QED BY <1>2, <2>1 DEF TakeFromPool
<1>3. ASSUME NEW t \in Tasks, ExecNext(t) PROVE ActiveInv'
  <2>1. ExecMoves(t)
    BY <1>3, ExecEffect
  <2>2. \A u \in Tasks : wd'[u] = "off"
    BY <2>1 DEF ExecMoves
  <2>3. CASE active' = active /\ UnderExecution(t)' = UnderExecution(t)
    BY <2>1, <2>2, <2>3 DEF ExecMoves
  <2>4. CASE active' = [active EXCEPT ![AgentOf[t]] = None] /\ UnderExecution(t)
    <3>1. ~UnderExecution(t)'
      BY <2>1, <2>4 DEF ExecMoves, PoolInv
    <3>2. \A u \in Tasks \ {t} : UnderExecution(u)' => UnderExecution(u)
      BY <2>1 DEF ExecMoves
    <3> QED BY <2>1, <2>2, <2>4, <3>1, <3>2 DEF ExecMoves
  <2> QED BY <2>1, <2>3, <2>4 DEF ExecMoves
<1>4. ASSUME NEW t \in Tasks, WdNext(t) PROVE ActiveInv'
  BY <1>4, WdEffect
<1>5. CASE InbNext
  BY <1>5, InbEffect
<1>6. CASE ProcessNext
  BY <1>6 DEF ProcessNext, StopRequested, StopReturns, ProcessEnds,
     ProcessStarts, RuntimeStarts, DownInv
<1>7. CASE UNCHANGED vars
  BY <1>7 DEF vars
<1> QED BY <1>1, <1>2, <1>3, <1>4, <1>5, <1>6, <1>7 DEF Next

\* Without timeouts, whatever is claimed, queued or executed is its agent's
\* active task, so an agent has at most one of them.
THEOREM ActiveAlwaysMarks ==
  ASSUME ~TimeoutOn
  PROVE  Spec => []ActiveMarksExecution
<1>1. Init => ActiveInv
  BY DEF Init, ActiveInv, ActiveMarksExecution, UnderExecution
<1>2. TypeInv /\ PoolInv /\ ActiveInv /\ [Next]_vars => ActiveInv'
  BY ActiveStep
<1>3. ActiveInv => ActiveMarksExecution
  BY DEF ActiveInv
<1>4. QED BY <1>1, <1>2, <1>3, TypeCorrect, PoolAlwaysSound, PTL DEF Spec

----------------------------------------------------------------------------
(* One custodian. *)

\* What a worker does to the records and the server, when no call is lost: it
\* stores a record for its own task as it gives the task up, and it reports
\* the task as running before it is past its start.
LEMMA ExecCustody ==
  ASSUME ~Lossy, TypeInv, RecordsSaved, NEW t \in Tasks, ExecNext(t)
  PROVE  /\ UNCHANGED inbVars
         /\ \/ disk' = disk
            \/ /\ exec[t] = "returned" /\ exec'[t] = "waitStored"
               /\ UNCHANGED server
               /\ \E k \in Keys : disk' = [disk EXCEPT ![k] = t]
         /\ \A u \in Tasks \ {t} : server'[u] = server[u]
         /\ server'[t] \in {"queued", "claimed"} =>
              \/ server'[t] = server[t] /\ exec[t] # "starting"
              \/ exec'[t] = "starting"
<1> USE RuntimeAssumption
        DEF TypeInv, TypeOK, recVars, execVars, inbVars, procVars, ExecStep,
            Report, RecordsSaved, ServerStatus
<1>1. CASE StoreWaiting(t)
  <2> DEFINE k == <<AgentOf[t], asked[t]>>
  <2>1. k \in Keys /\ phase \notin {"down", "starting"}
    BY <1>1 DEF StoreWaiting, Keys, DownInv
  <2>2. disk' = [disk EXCEPT ![k] = t]
    BY <1>1, <2>1 DEF StoreWaiting, SaveState
  <2> QED BY <1>1, <2>1, <2>2 DEF StoreWaiting
<1>2. CASE ReportClaimed(t)
  BY <1>2 DEF ReportClaimed
<1>3. CASE ReportRunning(t)
  BY <1>3 DEF ReportRunning
<1>4. CASE CloneFails(t)
  BY <1>4 DEF CloneFails
<1>5. CASE ReportPhase(t)
  BY <1>5 DEF ReportPhase
<1>6. CASE ReportWaiting(t)
  BY <1>6 DEF ReportWaiting
<1>7. CASE ReportOutcome(t)
  BY <1>7 DEF ReportOutcome
<1>8. CASE \/ ClearAfterClone(t) \/ Prepared(t) \/ EnterDirect(t)
           \/ DirectReturns(t) \/ DirectThrows(t)
  BY <1>8 DEF ClearAfterClone, Prepared, EnterDirect, DirectReturns,
     DirectThrows
<1>9. CASE EnterVerify(t) \/ SkipVerify(t) \/ Verdict(t) \/ ClearActive(t)
  BY <1>9 DEF EnterVerify, SkipVerify, Verdict, ClearActive
<1>10. ASSUME NEW c \in Chats, AskUser(t, c)
       PROVE  UNCHANGED <<inbVars, disk, server>> /\ exec[t] = "direct"
  BY <1>10 DEF AskUser
<1> QED
  BY <1>1, <1>2, <1>3, <1>4, <1>5, <1>6, <1>7, <1>8, <1>9, <1>10 DEF ExecNext

\* No report of the inbound thread puts a task back to where it is offered.
LEMMA InbReports ==
  ASSUME TypeInv, InbNext
  PROVE  \A t \in Tasks :
           server'[t] \in {"queued", "claimed"} => server'[t] = server[t]
<1> USE DEF TypeInv, TypeOK, Report
<1>1. CASE ResumeReportRunning
  BY <1>1 DEF ResumeReportRunning
<1>2. CASE StoreWaitingAgain
  BY <1>2 DEF StoreWaitingAgain
<1>3. CASE ResumeReportOutcome
  BY <1>3 DEF ResumeReportOutcome
<1>4. CASE \/ InbEnter \/ InbReturns \/ ObserveReply
           \/ \E c \in Chats : ResumeAsks(c)
           \/ \E a \in Agents, c \in Chats : Intercept(a, c)
  BY <1>4 DEF InbEnter, InbReturns, ObserveReply, ResumeAsks, Intercept
<1> QED BY <1>1, <1>2, <1>3, <1>4 DEF InbNext

\* No task gains a record in the file.
RecordsShrink == \A t \in Tasks, k \in Keys : disk'[k] = t => disk[k] = t

\* What the inbound thread does to the file and to the task it resumes: it
\* takes a record out, turns one into a resumption, or a resumption into one.
LEMMA InbRecords ==
  ASSUME TypeInv, RecordsSaved, InbNext
  PROVE  \/ RecordsShrink /\ (inbTask' = inbTask \/ inbTask' \notin Tasks)
         \/ \E k \in Keys : /\ RecordsShrink /\ disk'[k] # disk[k]
                           /\ inbTask \notin Tasks /\ inbTask' = disk[k]
         \/ \E k \in Keys :
              /\ inbTask \in Tasks /\ inbTask' = None
              /\ \A l \in Keys : disk'[l] = disk[l] \/ (l = k /\ disk'[l] = inbTask)
<1> USE RuntimeAssumption DEF TypeInv, TypeOK, RecordsShrink, InbStep, SaveState,
        EraseRecord, recVars
<1>1. CASE \/ ResumeReportRunning \/ InbEnter \/ InbReturns
           \/ \E c \in Chats : ResumeAsks(c)
  BY <1>1 DEF ResumeReportRunning, InbEnter, InbReturns, ResumeAsks
<1>2. CASE ResumeReportOutcome
  BY <1>2 DEF ResumeReportOutcome
<1>3. CASE StoreWaitingAgain
  <2> DEFINE k == <<inbAgent, inbAsked>>
  <2>1. k \in Keys /\ inbTask' = None /\ phase # "down"
    BY <1>3 DEF StoreWaitingAgain, InbInv, Keys, DownInv
  <2>2. waiting' = [waiting EXCEPT ![k] = inbTask] /\ disk' = waiting'
    BY <1>3 DEF StoreWaitingAgain
  <2>3. CASE inbTask \in Tasks
    <3>1. disk = waiting
      BY <2>1, <2>3 DEF RecordsSaved, DownInv
    <3>2. \A l \in Keys : disk'[l] = disk[l] \/ (l = k /\ disk'[l] = inbTask)
      BY <2>1, <2>2, <3>1
    <3> QED BY <2>1, <2>3, <3>2
  <2>4. CASE inbTask \notin Tasks
    <3>1. \A t \in Tasks, l \in Keys : disk'[l] = t => waiting[l] = t
      BY <2>1, <2>2, <2>4
    <3>2. RecordsShrink
      BY <2>1, <3>1 DEF RecordsSaved, DownInv
    <3> QED BY <2>1, <3>2
  <2> QED BY <2>3, <2>4
<1>4. CASE ObserveReply
  <2>1. inbTask' = inbTask /\ <<inbAgent, inbChat>> \in Keys /\ phase # "down"
    BY <1>4 DEF ObserveReply, InbInv, Keys, DownInv
  <2>2. CASE UNCHANGED recVars
    BY <2>1, <2>2
  <2>3. ASSUME NEW record \in {Unnamed, None}, disk' = waiting',
               waiting' = [waiting EXCEPT ![<<inbAgent, inbChat>>] = record]
        PROVE  RecordsShrink
    <3>1. \A t \in Tasks, l \in Keys : disk'[l] = t => waiting[l] = t
      BY <2>1, <2>3
    <3> QED BY <2>1, <3>1 DEF RecordsSaved, DownInv
  <2> QED BY <1>4, <2>1, <2>2, <2>3 DEF ObserveReply
<1>5. ASSUME NEW a \in Agents, NEW c \in Chats, Intercept(a, c),
             waiting[<<a, c>>] \in Tasks
      PROVE  \E k \in Keys : /\ RecordsShrink /\ disk'[k] # disk[k]
                            /\ inbTask \notin Tasks /\ inbTask' = disk[k]
  <2> DEFINE k == <<a, c>>
  <2>1. k \in Keys /\ phase # "down" /\ inbTask \notin Tasks
    BY <1>5 DEF Intercept, InbInv, Keys
  <2>2. disk = waiting
    BY <1>5, <2>1 DEF RecordsSaved, DownInv
  <2>3. disk' = [disk EXCEPT ![k] = None] /\ inbTask' = disk[k]
    BY <1>5, <2>2 DEF Intercept
  <2> QED BY <1>5, <2>1, <2>2, <2>3
<1>6. ASSUME NEW a \in Agents, NEW c \in Chats, Intercept(a, c),
             waiting[<<a, c>>] \notin Tasks
      PROVE  RecordsShrink /\ inbTask' \notin Tasks
  <2>1. <<a, c>> \in Keys /\ phase # "down" /\ inbTask' = waiting[<<a, c>>]
    BY <1>6 DEF Intercept, Keys
  <2>2. CASE UNCHANGED recVars
    BY <1>6, <2>1, <2>2
  <2>3. CASE waiting' = [waiting EXCEPT ![<<a, c>>] = None] /\ disk' = waiting'
    <3>1. \A t \in Tasks, l \in Keys : disk'[l] = t => waiting[l] = t
      BY <2>1, <2>3
    <3> QED BY <1>6, <2>1, <3>1 DEF RecordsSaved, DownInv
  <2> QED BY <1>6, <2>2, <2>3 DEF Intercept
<1> QED BY <1>1, <1>2, <1>3, <1>4, <1>5, <1>6 DEF InbNext

\* Without lost calls, every step keeps each task with one custodian.
LEMMA CustodyStep ==
  ASSUME ~Lossy
  PROVE  TypeInv /\ RecordsSaved /\ PoolInv /\ CustodyInv /\ [Next]_vars
           => CustodyInv'
<1> SUFFICES ASSUME TypeInv, RecordsSaved, PoolInv, CustodyInv, [Next]_vars
             PROVE  CustodyInv'
  OBVIOUS
<1> USE RuntimeAssumption DEF TypeInv, TypeOK, CustodyInv, OneRecord,
        ExecutedHere, ResumedHere, ReportedToServer, OfferedHere, NotElsewhere,
        UnderExecution, Reported, Resuming
<1>1. ASSUME NEW a \in Agents, PollNext(a) PROVE CustodyInv'
  <2> USE DEF procVars, recVars, inbVars, execVars, pollVars
  <2>1. CASE PollCheck(a)
    BY <2>1 DEF PollCheck
  <2>7. CASE ClaimNothing(a)
    BY <2>7 DEF ClaimNothing
  <2>8. CASE PollWake(a)
    BY <2>8 DEF PollWake
  <2>2. CASE SkipClaimed(a)
    BY <2>2 DEF SkipClaimed
  <2>3. ASSUME NEW t \in Tasks, ClaimFound(a, t) PROVE CustodyInv'
    BY <2>3 DEF ClaimFound
  <2>4. ASSUME NEW t \in Tasks, ClaimAnswerLost(a, t) PROVE CustodyInv'
    BY <2>4 DEF ClaimAnswerLost
  <2>5. CASE RecordClaim(a)
    <3>1. disk' = disk
      BY <2>5 DEF RecordClaim, SaveState, RecordsSaved, DownInv
    <3> QED BY <2>5, <3>1 DEF RecordClaim, OfferInv
  <2>6. CASE SubmitClaim(a)
    BY <2>6 DEF SubmitClaim, OfferInv, PoolInv
  <2> QED BY <1>1, <2>1, <2>2, <2>3, <2>4, <2>5, <2>6, <2>7,
        <2>8 DEF PollNext
<1>2. CASE TakeFromPool
  <2>1. queue[1] \in Tasks /\ Head(queue) = queue[1] /\ exec[queue[1]] = "queued"
    BY <1>2 DEF TakeFromPool, PoolInv
  <2> QED BY <1>2, <2>1 DEF TakeFromPool, procVars, recVars, pollVars, inbVars
<1>3. ASSUME NEW t \in Tasks, ExecNext(t) PROVE CustodyInv'
  <2>1. ExecMoves(t)
    BY <1>3, ExecEffect
  <2>2. t \in claimed /\ ~(poll[AgentOf[t]] = "submit" /\ offer[AgentOf[t]] = t)
    BY <2>1 DEF ExecMoves, PoolInv
  <2>3. UNCHANGED <<poll, offer, claimed, inbTask>>
    BY <1>3, <2>1, ExecCustody DEF ExecMoves, pollVars, inbVars
  <2>4. \A u \in Tasks \ {t} : exec'[u] = exec[u] /\ server'[u] = server[u]
    BY <1>3, <2>1, ExecCustody DEF ExecMoves
  <2>5. UnderExecution(t)' => UnderExecution(t)
    BY <2>1, <2>2 DEF ExecMoves
  <2>6. CASE disk' = disk
    <3>1. OneRecord' /\ ExecutedHere' /\ ResumedHere' /\ OfferedHere'
      BY <2>3, <2>4, <2>5, <2>6
    <3>2. Reported(t)' => server'[t] \notin {"queued", "claimed"}
      <4>1. exec[t] \notin {"none", "queued", "done"} /\ exec'[t] \notin {"none", "queued"}
        BY <2>1 DEF ExecMoves
      <4>2. Reported(t) \/ exec[t] \in {"claiming", "starting"}
        BY <4>1
      <4>3. server'[t] \in {"queued", "claimed"} =>
               \/ server'[t] = server[t] /\ exec[t] # "starting"
               \/ exec'[t] = "starting"
        BY <1>3, ExecCustody
      <4>4. exec[t] = "claiming" <=> exec'[t] = "starting"
        BY <2>1 DEF ExecMoves
      <4>5. CASE exec[t] = "claiming"
        <5>1. NotElsewhere(t)
          BY <4>5
        <5> QED BY <2>3, <2>6, <4>4, <4>5, <5>1
      <4>6. CASE exec[t] # "claiming"
        BY <4>2, <4>3, <4>4, <4>6
      <4> QED BY <4>5, <4>6
    <3>3. ReportedToServer'
      BY <2>3, <2>4, <2>6, <3>2
    <3> QED BY <3>1, <3>3
  <2>7. ASSUME NEW k \in Keys, disk' = [disk EXCEPT ![k] = t],
               exec[t] = "returned", exec'[t] = "waitStored", server' = server
        PROVE  CustodyInv'
    <3>1. UnderExecution(t) /\ ~UnderExecution(t)'
      BY <2>2, <2>3, <2>7
    <3>2. NotElsewhere(t)
      BY <3>1
    <3>3. /\ disk'[k] = t
          /\ \A l \in Keys \ {k} : disk'[l] = disk[l] /\ disk'[l] # t
      BY <2>7, <3>2
    <3>4. OneRecord' /\ ResumedHere'
      BY <2>3, <3>2, <3>3
    <3>5. ExecutedHere' /\ OfferedHere'
      BY <2>2, <2>3, <2>4, <3>1, <3>3
    <3>6. ReportedToServer'
      BY <2>3, <2>4, <2>7, <3>3
    <3> QED BY <3>4, <3>5, <3>6
  <2> QED BY <1>3, <2>6, <2>7, ExecCustody
<1>4. ASSUME NEW t \in Tasks, WdNext(t) PROVE CustodyInv'
  <2>1. server' = server \/ server' = [server EXCEPT ![t] = "failed"]
    BY <1>4 DEF WdNext, WatchdogStops, WatchdogCancels, WatchdogAbandons,
       WatchdogReports, Report
  <2> QED BY <1>4, <2>1, WdEffect DEF pollVars, recVars, execVars, inbVars
<1>5. CASE InbNext
  <2>1. UNCHANGED <<poll, offer, claimed, exec>>
    BY <1>5, InbEffect DEF pollVars, execVars
  <2>2. \A t \in Tasks : server'[t] \in {"queued", "claimed"} => server'[t] = server[t]
    BY <1>5, InbReports
  <2>3. CASE RecordsShrink /\ (inbTask' = inbTask \/ inbTask' \notin Tasks)
    <3>1. OneRecord' /\ ExecutedHere' /\ ResumedHere'
      BY <2>1, <2>3 DEF RecordsShrink
    <3>2. ReportedToServer'
      BY <2>1, <2>2, <2>3 DEF RecordsShrink
    <3>3. OfferedHere'
      BY <2>1, <2>3 DEF RecordsShrink, OfferInv
    <3> QED BY <3>1, <3>2, <3>3
  <2>4. ASSUME NEW k \in Keys, RecordsShrink, disk'[k] # disk[k],
               inbTask \notin Tasks, inbTask' = disk[k]
        PROVE  CustodyInv'
    <3>1. \A t \in Tasks, l \in Keys : disk'[l] = t => disk[l] = t /\ l # k
      BY <2>4 DEF RecordsShrink
    <3>2. \A t \in Tasks : Resuming(t)' => disk[k] = t
      BY <2>4
    <3>3. OneRecord' /\ ResumedHere'
      BY <3>1, <3>2
    <3>4. ExecutedHere'
      BY <2>1, <3>1, <3>2
    <3>5. \A t \in Tasks : Reported(t)' => Reported(t)
      BY <2>1, <3>1, <3>2
    <3>6. ReportedToServer'
      BY <2>2, <3>5
    <3>7. OfferedHere'
      BY <2>1, <3>1, <3>2 DEF OfferInv
    <3> QED BY <3>3, <3>4, <3>6, <3>7
  <2>5. ASSUME NEW k \in Keys, inbTask \in Tasks, inbTask' = None,
               \A l \in Keys : disk'[l] = disk[l] \/ (l = k /\ disk'[l] = inbTask)
        PROVE  CustodyInv'
    <3>1. OneRecord' /\ ExecutedHere' /\ ResumedHere'
      BY <2>1, <2>5
    <3>2. \A t \in Tasks : Reported(t)' => Reported(t)
      BY <2>1, <2>5
    <3>3. ReportedToServer'
      BY <2>2, <3>2
    <3>4. OfferedHere'
      BY <2>1, <2>5 DEF OfferInv
    <3> QED BY <3>1, <3>3, <3>4
  <2> QED BY <1>5, <2>3, <2>4, <2>5, InbRecords
<1>6. CASE ProcessNext
  <2> USE DEF procVars, pollVars, execVars, inbVars, recVars
  <2>1. CASE StopRequested
    BY <2>1 DEF StopRequested
  <2>2. CASE StopReturns
    BY <2>2 DEF StopReturns, SaveState, RecordsSaved
  <2>3. CASE ProcessEnds
    BY <2>3 DEF ProcessEnds
  <2>4. CASE ProcessStarts
    BY <2>4 DEF ProcessStarts
  <2>5. CASE RuntimeStarts
    BY <2>5 DEF RuntimeStarts, DownInv
  <2> QED BY <1>6, <2>1, <2>2, <2>3, <2>4, <2>5 DEF ProcessNext
<1>7. CASE UNCHANGED vars
  BY <1>7 DEF vars
<1> QED BY <1>1, <1>2, <1>3, <1>4, <1>5, <1>6, <1>7 DEF Next

\* As long as no call to the server is lost, a task is in one place only, for
\* any number of tasks, agents, chats, messages and restarts.
THEOREM AlwaysOneCustodian ==
  ASSUME ~Lossy
  PROVE  Spec => []OneCustodian
<1>1. Init => CustodyInv
  BY RuntimeAssumption DEF Init, CustodyInv, OneRecord, ExecutedHere,
     ResumedHere, ReportedToServer, OfferedHere, NotElsewhere, UnderExecution,
     Reported, Resuming
<1>2. TypeInv /\ RecordsSaved /\ PoolInv /\ CustodyInv /\ [Next]_vars
        => CustodyInv'
  BY CustodyStep
<1>3. TypeInv /\ RecordsSaved /\ CustodyInv => OneCustodian
  BY RuntimeAssumption DEF TypeInv, TypeOK, DownInv, RecordsSaved, CustodyInv,
     OneRecord, ExecutedHere, ResumedHere, NotElsewhere, OneCustodian, RecordKeys
<1>4. QED
  BY <1>1, <1>2, <1>3, TypeCorrect, RecordsAlwaysSaved, PoolAlwaysSound,
     PTL DEF Spec

----------------------------------------------------------------------------
(* TaskRuntime implements TaskCustody.                                      *)

\* The refinement mapping, task by task.
Custodies == [t \in Tasks |-> Custody(t)]

Recorded(t) == \E k \in Keys : disk[k] = t

\* What is assumed of a state from which the steps are mapped.
Sound == TypeInv /\ RecordsSaved /\ PoolInv /\ ActiveInv /\ CustodyInv

----------------------------------------------------------------------------
(* The actions of TaskCustody, as conditions on the mapping.                *)

\* Where nobody's custody changes the step is a stutter.
LEMMA Stutters ==
  ASSUME \A t \in Tasks : /\ UnderExecution(t)' = UnderExecution(t)
                          /\ Resuming(t)' = Resuming(t)
                          /\ Recorded(t)' = Recorded(t)
  PROVE  [TC!Next]_Custodies
<1>1. \A t \in Tasks : Custody(t)' = Custody(t)
  BY DEF Custody, Recorded
<1> QED
  BY <1>1 DEF Custodies

\* One task changes hands.
LEMMA OneMoves ==
  ASSUME NEW t \in Tasks, NEW to, Custody(t)' = to,
         \A u \in Tasks \ {t} : Custody(u)' = Custody(u)
  PROVE  Custodies' = [Custodies EXCEPT ![t] = to]
BY DEF Custodies

\* A task nobody has is taken, by an agent that executes nothing.
LEMMA Claims ==
  ASSUME NEW t \in Tasks, Custody(t) = "idle",
         \A u \in Tasks : AgentOf[u] = AgentOf[t] => Custody(u) # "executing",
         Custodies' = [Custodies EXCEPT ![t] = "executing"]
  PROVE  TC!Next
BY DEF TC!Next, TC!Claim, TC!Move, Custodies

\* A task is given up.
LEMMA Finishes ==
  ASSUME NEW t \in Tasks, Custody(t) \in {"executing", "resuming"},
         Custodies' = [Custodies EXCEPT ![t] = "idle"]
  PROVE  TC!Next
BY DEF TC!Next, TC!Finish, TC!Move, Custodies

\* A reply takes up a waiting task.
LEMMA Replies ==
  ASSUME NEW t \in Tasks, Custody(t) = "waiting",
         Custodies' = [Custodies EXCEPT ![t] = "resuming"]
  PROVE  TC!Next
BY DEF TC!Next, TC!Reply, TC!Move, Custodies

\* A waiting task is dropped.
LEMMA Forgets ==
  ASSUME NEW t \in Tasks, Custody(t) = "waiting",
         Custodies' = [Custodies EXCEPT ![t] = "idle"]
  PROVE  TC!Next
BY DEF TC!Next, TC!Forget, TC!Move, Custodies

\* All waiting tasks are dropped while nothing is executed.
LEMMA Loses ==
  ASSUME \A t \in Tasks : Custody(t) \in {"idle", "waiting"} /\ Custody(t)' = "idle"
  PROVE  TC!Next
BY DEF TC!Next, TC!Lose, Custodies

\* Everything but the waiting tasks is dropped.
LEMMA Crashes ==
  ASSUME \A t \in Tasks :
           Custody(t)' = IF Custody(t) = "waiting" THEN "waiting" ELSE "idle"
  PROVE  TC!Next
BY DEF TC!Next, TC!Crash, Custodies

\* A task is given to the user to wait for; the record it replaces is lost.
LEMMA Asks ==
  ASSUME NEW t \in Tasks, Custody(t) \in {"executing", "resuming"},
         NEW u \in Tasks, u = t \/ Custody(u) = "waiting", AgentOf[u] = AgentOf[t],
         Custodies' = [Custodies EXCEPT ![u] = "idle", ![t] = "waiting"]
  PROVE  TC!Next
BY DEF TC!Next, TC!Ask, Custodies

----------------------------------------------------------------------------
(* Records *)

\* Where a task is, from the layers of the invariant.
LEMMA Places ==
  ASSUME Sound, NEW t \in Tasks
  PROVE  /\ Recorded(t) <=> Custody(t) = "waiting"
         /\ UnderExecution(t) <=> Custody(t) = "executing"
         /\ Resuming(t) <=> Custody(t) = "resuming"
         /\ Custody(t) \in {"executing", "resuming", "waiting", "idle"}
<1>1. /\ UnderExecution(t) => ~Resuming(t) /\ ~Recorded(t)
      /\ Resuming(t) => ~Recorded(t)
  BY DEF Sound, CustodyInv, ExecutedHere, ResumedHere, NotElsewhere, Recorded
<1> HIDE DEF Sound
<1> QED
  BY <1>1 DEF Custody, Recorded

\* The record of a chat is replaced or erased, and nothing else happens: one
\* task is forgotten or, before the runtime has loaded its file, all of them.
LEMMA RecordGoes ==
  ASSUME Sound, phase # "down",
         \A t \in Tasks : /\ UnderExecution(t)' = UnderExecution(t)
                          /\ Resuming(t)' = Resuming(t),
         NEW k \in Keys, NEW r, r \notin Tasks,
         disk' = [waiting EXCEPT ![k] = r]
  PROVE  [TC!Next]_Custodies
<1> USE DEF Sound, TypeInv, TypeOK
<1>1. CASE phase = "starting"
  <2>1. \A t \in Tasks : ~UnderExecution(t) /\ ~Resuming(t)
    BY <1>1, RuntimeAssumption DEF DownInv, UnderExecution, Resuming
  <2>2. \A t \in Tasks : ~Recorded(t)'
    BY <1>1 DEF DownInv, Recorded
  <2>3. \A t \in Tasks : Custody(t) \in {"idle", "waiting"} /\ Custody(t)' = "idle"
    BY <2>1, <2>2 DEF Custody, Recorded
  <2> QED
    BY <2>3, Loses
<1>2. CASE phase # "starting"
  <2>1. disk = waiting /\ disk' = [disk EXCEPT ![k] = r]
    BY <1>2 DEF RecordsSaved
  <2>2. CASE disk[k] \notin Tasks
    <3>1. \A t \in Tasks : Recorded(t)' = Recorded(t)
      BY <2>1, <2>2 DEF Recorded
    <3> QED
      BY <3>1, Stutters
  <2>3. ASSUME NEW t \in Tasks, disk[k] = t PROVE TC!Next
    <3>1. Recorded(t) /\ ~Recorded(t)'
      BY <2>1, <2>3 DEF Recorded, CustodyInv, OneRecord
    <3>2. \A u \in Tasks \ {t} : Recorded(u)' = Recorded(u)
      BY <2>1, <2>3 DEF Recorded
    <3> HIDE DEF Sound, TypeInv, TypeOK
    <3>3. Custody(t) = "waiting" /\ ~UnderExecution(t) /\ ~Resuming(t)
      BY <3>1, Places
    <3>4. Custody(t)' = "idle"
      BY <3>1, <3>3 DEF Custody, Recorded
    <3>5. \A u \in Tasks \ {t} : Custody(u)' = Custody(u)
      BY <3>2 DEF Custody, Recorded
    <3> QED
      BY <3>3, <3>4, <3>5, OneMoves, Forgets
  <2> QED
    BY <2>2, <2>3
<1> QED
  BY <1>1, <1>2

\* A task is given to the user: its record is written to the file.
LEMMA RecordComes ==
  ASSUME Sound, Sound', NEW t \in Tasks, NEW k \in Keys,
         UnderExecution(t) \/ Resuming(t),
         ~UnderExecution(t)' /\ ~Resuming(t)',
         \A u \in Tasks \ {t} : /\ UnderExecution(u)' = UnderExecution(u)
                                /\ Resuming(u)' = Resuming(u),
         disk' = [disk EXCEPT ![k] = t]
  PROVE  TC!Next
<1>1. disk \in [Keys -> Tasks \cup {None, Unnamed}] /\ disk'[k] = t
  BY DEF Sound, TypeInv, TypeOK
<1>2. AgentOf[t] = k[1] /\ (disk[k] \in Tasks => AgentOf[disk[k]] = k[1])
  BY <1>1 DEF Sound, TypeInv, RecordInv
<1>3. Recorded(t)'
  BY <1>1 DEF Recorded
<1>4. Custody(t)' = "waiting" /\ Custody(t) \in {"executing", "resuming"}
  BY <1>3, Places DEF Custody, Recorded
<1>5. CASE disk[k] \notin Tasks
  <2>1. \A u \in Tasks \ {t} : Recorded(u)' = Recorded(u)
    BY <1>1, <1>5 DEF Recorded
  <2>2. \A u \in Tasks \ {t} : Custody(u)' = Custody(u)
    BY <2>1 DEF Custody, Recorded
  <2>3. Custodies' = [Custodies EXCEPT ![t] = "idle", ![t] = "waiting"]
    BY <1>4, <2>2 DEF Custodies
  <2> QED
    BY <1>4, <2>3, Asks
<1>6. ASSUME NEW v \in Tasks, disk[k] = v PROVE TC!Next
  <2>1. Recorded(v) /\ (v # t => ~Recorded(v)')
    BY <1>1, <1>6 DEF Recorded, Sound, CustodyInv, OneRecord
  <2>2. \A u \in Tasks \ {t, v} : Recorded(u)' = Recorded(u)
    BY <1>1, <1>6 DEF Recorded
  <2>3. Custody(v) = "waiting" /\ ~UnderExecution(v) /\ ~Resuming(v)
    BY <2>1, Places
  <2>4. v # t => Custody(v)' = "idle"
    BY <2>1, <2>3 DEF Custody, Recorded
  <2>5. \A u \in Tasks \ {t, v} : Custody(u)' = Custody(u)
    BY <2>2 DEF Custody, Recorded
  <2>6. Custodies' = [Custodies EXCEPT ![v] = "idle", ![t] = "waiting"]
    BY <1>4, <2>4, <2>5 DEF Custodies
  <2> QED
    BY <1>2, <1>4, <1>6, <2>3, <2>6, Asks
<1> QED
  BY <1>5, <1>6

\* A task is given up and leaves no record.
LEMMA GivesUp ==
  ASSUME Sound, NEW t \in Tasks,
         UnderExecution(t) \/ Resuming(t),
         ~UnderExecution(t)' /\ ~Resuming(t)', disk' = disk,
         \A u \in Tasks \ {t} : /\ UnderExecution(u)' = UnderExecution(u)
                                /\ Resuming(u)' = Resuming(u)
  PROVE  TC!Next
<1>1. Custody(t) \in {"executing", "resuming"} /\ ~Recorded(t)
  BY Places
<1>2. Custody(t)' = "idle" /\ \A u \in Tasks \ {t} : Custody(u)' = Custody(u)
  BY <1>1 DEF Custody, Recorded
<1> QED
  BY <1>1, <1>2, OneMoves, Finishes

----------------------------------------------------------------------------
(* The threads *)

\* A poll loop claims a task, or changes nobody's custody.
LEMMA PollRefines ==
  ASSUME Sound, NEW a \in Agents, PollNext(a)
  PROVE  [TC!Next]_Custodies
<1> USE RuntimeAssumption DEF Sound, TypeInv, TypeOK
<1>2. UNCHANGED inbTask /\ UNCHANGED waiting
  BY PollEffect DEF inbVars
<1>3. disk' = disk
  <2>1. poll[a] # "down"
    BY DEF PollNext, PollCheck, ClaimFound, ClaimNothing, ClaimAnswerLost,
       SkipClaimed, RecordClaim, SubmitClaim, PollWake
  <2>2. disk = waiting
    BY <2>1 DEF DownInv, RecordsSaved
  <2>3. disk' = disk \/ disk' = waiting'
    BY DEF PollNext, PollCheck, ClaimFound, ClaimNothing, ClaimAnswerLost,
       SkipClaimed, RecordClaim, SubmitClaim, PollWake, recVars, SaveState
  <2> QED
    BY <1>2, <2>2, <2>3
<1>4. \A t \in Tasks : Resuming(t)' = Resuming(t) /\ Recorded(t)' = Recorded(t)
  BY <1>2, <1>3 DEF Resuming, Recorded
<1>5. CASE active' = active /\ poll'[a] # "submit"
  <2>1. \A b \in Agents \ {a} : poll'[b] = poll[b] /\ offer'[b] = offer[b]
    BY PollEffect
  <2>2. \/ UNCHANGED exec /\ poll[a] # "submit"
        \/ /\ poll[a] = "submit"
           /\ offer[a] \in Tasks /\ AgentOf[offer[a]] = a /\ exec[offer[a]] = "none"
           /\ exec' = [exec EXCEPT ![offer[a]] = "queued"]
    BY PollEffect
  <2>3. \A t \in Tasks : UnderExecution(t)' = UnderExecution(t)
    BY <1>5, <2>1, <2>2 DEF UnderExecution
  <2> QED
    BY <1>4, <2>3, Stutters
<1>6. CASE ~(active' = active /\ poll'[a] # "submit")
  <2>0. offer[a] \in Tasks
    BY <1>6, PollEffect
  <2> SUFFICES ASSUME NEW t \in Tasks, offer[a] = t PROVE TC!Next
    BY <2>0
  <2>1. /\ poll[a] = "offered" /\ poll'[a] = "submit" /\ AgentOf[t] = a
        /\ offer' = offer /\ exec' = exec
        /\ \A b \in Agents \ {a} : poll'[b] = poll[b]
    BY <1>6, PollEffect
  <2>2. t \notin claimed
    BY <2>1 DEF PollNext, PollCheck, ClaimFound, ClaimNothing, ClaimAnswerLost,
       SkipClaimed, RecordClaim, SubmitClaim, PollWake
  <2>3. NotElsewhere(t) /\ exec[t] = "none"
    BY <2>1, <2>2 DEF CustodyInv, OfferedHere, PoolInv
  <2>4. Custody(t) = "idle"
    BY <2>1, <2>3 DEF Custody, UnderExecution, NotElsewhere
  <2>5. active[a] = None
    BY <2>1 DEF ActiveInv
  <2>6. \A u \in Tasks : AgentOf[u] = a => ~UnderExecution(u)
    BY <2>5 DEF ActiveInv, ActiveMarksExecution
  <2>7. UnderExecution(t)' /\ \A u \in Tasks \ {t} : UnderExecution(u)' = UnderExecution(u)
    BY <2>1 DEF UnderExecution
  <2> HIDE DEF Sound, TypeInv, TypeOK
  <2>8. Custody(t)' = "executing" /\ \A u \in Tasks \ {t} : Custody(u)' = Custody(u)
    BY <1>4, <2>7 DEF Custody, Recorded
  <2>9. \A u \in Tasks : AgentOf[u] = AgentOf[t] => Custody(u) # "executing"
    BY <2>1, <2>6 DEF Custody
  <2>10. Custodies' = [Custodies EXCEPT ![t] = "executing"]
    BY <2>8, OneMoves
  <2> QED
    BY <2>4, <2>9, <2>10, Claims
<1> QED
  BY <1>5, <1>6

\* A worker gives a task up, hands it to the user, or changes nobody's custody.
LEMMA ExecRefines ==
  ASSUME ~Lossy, Sound, Sound', NEW t \in Tasks, ExecNext(t)
  PROVE  [TC!Next]_Custodies
<1>0. TypeInv /\ RecordsSaved /\ PoolInv
  BY DEF Sound
<1>1. ExecMoves(t)
  BY <1>0, ExecEffect
<1>2. UNCHANGED <<poll, offer, inbTask>>
  BY <1>0, <1>1, ExecCustody DEF ExecMoves, pollVars, inbVars
<1>3. \A u \in Tasks : Resuming(u)' = Resuming(u)
  BY <1>2 DEF Resuming
<1>4. \A u \in Tasks \ {t} : UnderExecution(u)' = UnderExecution(u)
  BY <1>1, <1>2 DEF UnderExecution, ExecMoves, Sound, TypeInv, TypeOK
<1>5. UnderExecution(t) => ~Resuming(t)'
  BY <1>3 DEF Sound, CustodyInv, ExecutedHere, NotElsewhere
<1>6. ~(poll[AgentOf[t]] = "submit" /\ offer[AgentOf[t]] = t)
  BY <1>1, RuntimeAssumption DEF ExecMoves, Sound, PoolInv
<1>7. CASE disk' = disk
  <2>1. \A u \in Tasks : Recorded(u)' = Recorded(u)
    BY <1>7 DEF Recorded
  <2>2. CASE UnderExecution(t)' = UnderExecution(t)
    BY <1>3, <1>4, <2>1, <2>2, Stutters
  <2>3. CASE UnderExecution(t) /\ ~UnderExecution(t)'
    BY <1>3, <1>4, <1>5, <1>7, <2>3, GivesUp
  <2>4. UnderExecution(t)' => UnderExecution(t)
    BY <1>1, <1>2, <1>6 DEF ExecMoves, UnderExecution
  <2> QED
    BY <2>2, <2>3, <2>4 DEF UnderExecution
<1>8. ASSUME NEW k \in Keys, disk' = [disk EXCEPT ![k] = t],
             exec[t] = "returned", exec'[t] = "waitStored"
      PROVE  TC!Next
  <2>1. UnderExecution(t) /\ ~UnderExecution(t)'
    BY <1>2, <1>6, <1>8 DEF UnderExecution
  <2> QED
    BY <1>3, <1>4, <1>5, <1>8, <2>1, RecordComes
<1> QED
  BY <1>0, <1>7, <1>8, ExecCustody

\* The inbound thread resumes, gives up, hands over or forgets a task.
LEMMA InbRefines ==
  ASSUME ~Lossy, Sound, Sound', InbNext
  PROVE  [TC!Next]_Custodies
<1>0. /\ TypeInv /\ RecordsSaved
      /\ waiting \in [Keys -> Tasks \cup {None, Unnamed}]
      /\ disk \in [Keys -> Tasks \cup {None, Unnamed}]
      /\ inbTask \in Tasks \cup {None, Unnamed}
  BY DEF Sound, TypeInv, TypeOK
<1>1. \A t \in Tasks : UnderExecution(t)' = UnderExecution(t)
  BY InbEffect DEF UnderExecution, pollVars, execVars
<1>2. inbPc # "idle" => phase # "down" /\ inbAgent \in Agents /\ inbChat \in Chats
  BY <1>0 DEF TypeInv, DownInv, InbInv
<1>3. phase \notin {"down", "starting"} => disk = waiting
  BY <1>0 DEF RecordsSaved
<1>4. phase \in {"down", "starting"} =>
        inbTask \notin Tasks /\ \A k \in Keys : waiting[k] \notin Tasks
  BY <1>0 DEF TypeInv, DownInv
<1>5. CASE UNCHANGED <<disk, inbTask>>
  <2>1. \A t \in Tasks : Resuming(t)' = Resuming(t) /\ Recorded(t)' = Recorded(t)
    BY <1>5 DEF Resuming, Recorded
  <2> QED
    BY <1>1, <2>1, Stutters
<1>6. CASE disk' = disk /\ inbTask' = None
  <2>1. \A t \in Tasks : ~Resuming(t)' /\ Recorded(t)' = Recorded(t)
    BY <1>6, RuntimeAssumption DEF Resuming, Recorded
  <2>2. CASE inbTask \notin Tasks
    <3>1. \A t \in Tasks : Resuming(t)' = Resuming(t)
      BY <2>1, <2>2 DEF Resuming
    <3> QED
      BY <1>1, <2>1, <3>1, Stutters
  <2>3. ASSUME NEW t \in Tasks, inbTask = t PROVE TC!Next
    <3>1. Resuming(t) /\ \A u \in Tasks \ {t} : Resuming(u)' = Resuming(u)
      BY <2>1, <2>3 DEF Resuming
    <3>2. ~UnderExecution(t) /\ ~UnderExecution(t)'
      BY <1>1, <3>1, Places
    <3> QED
      BY <1>1, <1>6, <2>1, <3>1, <3>2, GivesUp
  <2> QED
    BY <2>2, <2>3
<1>7. ASSUME NEW k \in Keys, NEW r, r \notin Tasks, phase # "down",
             disk' = [waiting EXCEPT ![k] = r],
             inbTask' = inbTask \/ (inbTask \notin Tasks /\ inbTask' \notin Tasks)
      PROVE  [TC!Next]_Custodies
  <2>1. \A t \in Tasks : Resuming(t)' = Resuming(t)
    BY <1>7 DEF Resuming
  <2> QED
    BY <1>1, <1>7, <2>1, RecordGoes
<1>8. CASE StoreWaitingAgain
  <2> DEFINE k == <<inbAgent, inbAsked>>
  <2>1. /\ k \in Keys /\ phase # "down" /\ inbTask' = None
        /\ disk' = [waiting EXCEPT ![k] = inbTask]
    BY <1>0, <1>2, <1>8 DEF StoreWaitingAgain, InbStep, SaveState, TypeInv, TypeOK, Keys
  <2>2. CASE inbTask \notin Tasks
    BY <1>7, <2>1, <2>2, RuntimeAssumption
  <2>3. ASSUME NEW t \in Tasks, inbTask = t PROVE TC!Next
    <3>1. disk' = [disk EXCEPT ![k] = t]
      BY <1>3, <1>4, <2>1, <2>3
    <3>2. Resuming(t) /\ ~Resuming(t)'
      BY <2>1, <2>3, RuntimeAssumption DEF Resuming
    <3>3. ~UnderExecution(t)' /\ ~UnderExecution(t)
      BY <1>1, <3>2, Places
    <3>4. \A u \in Tasks \ {t} : Resuming(u)' = Resuming(u)
      BY <2>1, <2>3, RuntimeAssumption DEF Resuming
    <3>5. \A n \in Keys : disk' = [disk EXCEPT ![n] = t] => TC!Next
      BY <1>1, <3>2, <3>3, <3>4, RecordComes
    <3> QED
      BY <2>1, <3>1, <3>5
  <2> QED
    BY <1>0, <2>2, <2>3
<1>9. CASE ObserveReply
  <2>1. inbTask' = inbTask /\ phase # "down" /\ <<inbAgent, inbChat>> \in Keys
    BY <1>2, <1>9 DEF ObserveReply, InbStep, Keys
  <2>2. \/ \E r \in {Unnamed, None} : disk' = [waiting EXCEPT ![<<inbAgent, inbChat>>] = r]
        \/ disk' = disk
    BY <1>9 DEF ObserveReply, EraseRecord, SaveState, recVars
  <2> QED
    BY <1>5, <1>7, <2>1, <2>2, RuntimeAssumption
<1>10. ASSUME NEW a \in Agents, NEW c \in Chats, Intercept(a, c)
       PROVE  [TC!Next]_Custodies
  <2> DEFINE k == <<a, c>>
  <2>1. k \in Keys /\ phase # "down" /\ inbTask' = waiting[k] /\ inbTask \notin Tasks
    BY <1>0, <1>10 DEF Intercept, InbStep, Keys, TypeInv, InbInv
  <2>2. \/ waiting[k] = None /\ disk' = disk
        \/ waiting[k] # None /\ disk' = [waiting EXCEPT ![k] = None]
    BY <1>10 DEF Intercept, EraseRecord, SaveState, recVars
  <2> HIDE DEF k
  <2>3. CASE waiting[k] = None /\ disk' = disk
    BY <1>6, <2>1, <2>3
  <2>4. CASE waiting[k] = Unnamed /\ disk' = [waiting EXCEPT ![k] = None]
    BY <1>7, <2>1, <2>4, RuntimeAssumption
  <2>5. ASSUME NEW t \in Tasks, waiting[k] = t, disk' = [waiting EXCEPT ![k] = None]
        PROVE  TC!Next
    <3>1. disk = waiting
      BY <1>3, <1>4, <2>1, <2>5
    <3>2. Recorded(t) /\ ~Recorded(t)'
      BY <1>0, <2>1, <2>5, <3>1, RuntimeAssumption
      DEF Recorded, Sound, CustodyInv, OneRecord
    <3>3. \A u \in Tasks \ {t} : Recorded(u)' = Recorded(u)
      BY <1>0, <2>1, <2>5, <3>1, RuntimeAssumption DEF Recorded
    <3>4. Resuming(t)' /\ \A u \in Tasks \ {t} : ~Resuming(u)' /\ ~Resuming(u)
      BY <2>1, <2>5 DEF Resuming
    <3>5. Custody(t) = "waiting" /\ ~UnderExecution(t)
      BY <3>2, Places
    <3>6. Custody(t)' = "resuming" /\ \A u \in Tasks \ {t} : Custody(u)' = Custody(u)
      BY <1>1, <3>3, <3>4, <3>5 DEF Custody, Recorded
    <3>7. Custodies' = [Custodies EXCEPT ![t] = "resuming"]
      BY <3>6, OneMoves
    <3> QED
      BY <3>5, <3>7, Replies
  <2> QED
    BY <1>0, <2>1, <2>2, <2>3, <2>4, <2>5
<1>11. CASE ResumeReportOutcome
  BY <1>6, <1>11 DEF ResumeReportOutcome, recVars
<1>12. CASE ResumeReportRunning \/ InbEnter \/ InbReturns \/ \E c \in Chats : ResumeAsks(c)
  BY <1>5, <1>12 DEF ResumeReportRunning, InbEnter, InbReturns, ResumeAsks, recVars
<1> QED
  BY <1>8, <1>9, <1>10, <1>11, <1>12 DEF InbNext

\* Start and Stop change nobody's custody, and a crash leaves the waiting tasks.
LEMMA ProcessRefines ==
  ASSUME Sound, ProcessNext
  PROVE  [TC!Next]_Custodies
<1> USE RuntimeAssumption DEF UnderExecution, Resuming, Recorded
<1>1. CASE StopRequested \/ ProcessStarts
  BY <1>1, Stutters DEF StopRequested, ProcessStarts, pollVars, execVars, recVars, inbVars
<1>2. CASE StopReturns
  <2>1. disk' = disk
    BY <1>2 DEF StopReturns, SaveState, Sound, RecordsSaved
  <2> QED
    BY <1>2, <2>1, Stutters DEF StopReturns, pollVars, execVars, inbVars
<1>3. CASE RuntimeStarts
  BY <1>3, Stutters
  DEF RuntimeStarts, execVars, inbVars, Sound, TypeInv, TypeOK, DownInv
<1>4. CASE ProcessEnds
  <2>1. \A t \in Tasks : ~UnderExecution(t)' /\ ~Resuming(t)' /\ Recorded(t)' = Recorded(t)
    BY <1>4 DEF ProcessEnds
  <2>2. \A t \in Tasks :
          Custody(t)' = IF Custody(t) = "waiting" THEN "waiting" ELSE "idle"
    BY <2>1, Places DEF Custody
  <2> QED
    BY <2>2, Crashes
<1> QED
  BY <1>1, <1>2, <1>3, <1>4 DEF ProcessNext

----------------------------------------------------------------------------
\* Every step of the runtime is one of TaskCustody's, or a stutter.
LEMMA StepRefines ==
  ASSUME ~Lossy, Sound, Sound', [Next]_vars
  PROVE  [TC!Next]_Custodies
<1>1. CASE TakeFromPool
  <2>1. queue[1] \in Tasks /\ Head(queue) = queue[1] /\ exec[queue[1]] = "queued"
    BY <1>1 DEF TakeFromPool, Sound, TypeInv, TypeOK, PoolInv
  <2>2. /\ exec' = [exec EXCEPT ![queue[1]] = "claiming"]
        /\ UNCHANGED <<poll, offer, disk, inbTask>> /\ exec \in [Tasks -> ExecPc]
    BY <1>1, <2>1 DEF TakeFromPool, pollVars, recVars, inbVars, Sound, TypeInv, TypeOK
  <2>3. \A t \in Tasks : UnderExecution(t)' = UnderExecution(t)
    BY <2>1, <2>2 DEF UnderExecution
  <2>4. \A t \in Tasks : Resuming(t)' = Resuming(t) /\ Recorded(t)' = Recorded(t)
    BY <2>2 DEF Resuming, Recorded
  <2> QED
    BY <2>3, <2>4, Stutters
<1>2. ASSUME NEW t \in Tasks, WdNext(t) PROVE [TC!Next]_Custodies
  BY <1>2, WdEffect, Stutters
  DEF UnderExecution, Resuming, Recorded, pollVars, execVars, recVars, inbVars
<1>3. CASE UNCHANGED vars
  BY <1>3, Stutters DEF vars, UnderExecution, Resuming, Recorded
<1> QED
  BY <1>1, <1>2, <1>3, PollRefines, ExecRefines, InbRefines, ProcessRefines DEF Next

\* The layers of the invariant hold together.
LEMMA AlwaysSound ==
  ASSUME ~TimeoutOn, ~Lossy
  PROVE  Spec => []Sound
<1>1. Init => ActiveInv /\ CustodyInv
  BY RuntimeAssumption DEF Init, ActiveInv, ActiveMarksExecution, UnderExecution,
     CustodyInv, OneRecord, ExecutedHere, ResumedHere, ReportedToServer, OfferedHere,
     NotElsewhere, Reported, Resuming
<1>2. TypeInv /\ PoolInv /\ ActiveInv /\ [Next]_vars => ActiveInv'
  BY ActiveStep
<1>3. TypeInv /\ RecordsSaved /\ PoolInv /\ CustodyInv /\ [Next]_vars => CustodyInv'
  BY CustodyStep
<1>4. TypeInv /\ RecordsSaved /\ PoolInv /\ ActiveInv /\ CustodyInv => Sound
  BY DEF Sound
<1> QED
  BY <1>1, <1>2, <1>3, <1>4, TypeCorrect, RecordsAlwaysSaved, PoolAlwaysSound, PTL DEF Spec

\* The task runtime implements TaskCustody (AgentPollLoop, ExecuteClaimedTask,
\* TryResumeWaitingTask, ObserveInboundResult, Start, Stop and a crash at any
\* point), as long as no task times out and no call to the server is lost.
THEOREM RuntimeImplementsCustody ==
  ASSUME ~TimeoutOn, ~Lossy
  PROVE  Spec => ImplementsCustody
<1>1. Init => TC!Init
  BY RuntimeAssumption DEF Init, TC!Init, Custody, UnderExecution, Resuming
<1>2. Sound /\ Sound' /\ [Next]_vars => [TC!Next]_Custodies
  BY StepRefines
<1>3. Custodies = [t \in Tasks |-> Custody(t)]
  BY DEF Custodies
<1>4. Sound /\ Sound' /\ [Next]_vars => [TC!Next]_([t \in Tasks |-> Custody(t)])
  BY <1>2 DEF Custodies
<1> QED
  BY <1>1, <1>4, AlwaysSound, PTL DEF Spec, ImplementsCustody, TC!Spec

----------------------------------------------------------------------------
(* What the server was told about a task stands.                            *)

Final == {"completed", "failed"}

\* The runtime still has to report an outcome of the task.
Pending(t) ==
  \/ Recorded(t)
  \/ Resuming(t)
  \/ UnderExecution(t) /\ exec[t] # "cloneFailed"
  \/ exec[t] \in {"completing", "failing"}

\* The server has no outcome of a task that is pending or just offered, and a
\* worker that is about to report one is the last to have the task.
SettledInv ==
  /\ \A t \in Tasks : Pending(t) => server[t] \notin Final
  /\ \A t \in Tasks : exec[t] \in {"completing", "failing"} => NotElsewhere(t)
  /\ \A a \in Agents : poll[a] = "offered" /\ offer[a] \notin claimed =>
       server[offer[a]] \notin Final

----------------------------------------------------------------------------
(* What each thread tells the server, when no call is lost.                 *)

\* The server's outcomes stand in this step.
Stands ==
  \A t \in Tasks : server[t] \in Final => server'[t] \in {server[t], "waiting_user"}

\* A worker reports the outcome of a task as its last step with it.
LEMMA ExecTells ==
  ASSUME ~Lossy, TypeInv, NEW t \in Tasks, ExecNext(t)
  PROVE  /\ \A u \in Tasks \ {t} : server'[u] = server[u]
         /\ \/ server'[t] = server[t]
            \/ server'[t] = "waiting_user" /\ exec'[t] = "done"
            \/ server'[t] \notin Final /\ Pending(t)
            \/ exec[t] = "preparing" /\ exec'[t] = "cloneFailed"
            \/ exec[t] \in {"completing", "failing"} /\ exec'[t] = "done"
         /\ exec[t] \in {"cloneFailed", "waitStored", "completing", "failing"}
              => exec'[t] = "done"
         /\ exec'[t] \in {"completing", "failing"}
              => exec[t] \in {"passed", "rejected"}
<1> USE DEF TypeInv, TypeOK, ExecPc, execVars, ExecStep, Report, Final, Pending,
        UnderExecution
<1>1. CASE ReportClaimed(t)
  BY <1>1 DEF ReportClaimed
<1>2. CASE ReportRunning(t)
  BY <1>2 DEF ReportRunning
<1>3. CASE CloneFails(t)
  BY <1>3 DEF CloneFails
<1>4. CASE ReportPhase(t)
  BY <1>4 DEF ReportPhase
<1>5. CASE ReportWaiting(t)
  BY <1>5 DEF ReportWaiting
<1>6. CASE ReportOutcome(t)
  BY <1>6 DEF ReportOutcome
<1>7. CASE ClearAfterClone(t) \/ ClearActive(t) \/ StoreWaiting(t)
  BY <1>7 DEF ClearAfterClone, ClearActive, StoreWaiting
<1>8. CASE \/ Prepared(t) \/ EnterDirect(t) \/ DirectReturns(t) \/ DirectThrows(t)
           \/ EnterVerify(t) \/ SkipVerify(t) \/ Verdict(t)
           \/ \E c \in Chats : AskUser(t, c)
  BY <1>8 DEF Prepared, EnterDirect, DirectReturns, DirectThrows, EnterVerify,
     SkipVerify, Verdict, AskUser
<1> QED
  BY <1>1, <1>2, <1>3, <1>4, <1>5, <1>6, <1>7, <1>8 DEF ExecNext

\* The inbound thread reports only the task it resumes, and an outcome as it
\* gives the task up.
LEMMA InbTells ==
  ASSUME ~Lossy, TypeInv, InbNext
  PROVE  \A t \in Tasks :
           \/ server'[t] = server[t]
           \/ Resuming(t) /\ server'[t] \notin Final
           \/ Resuming(t) /\ disk' = disk /\ inbTask' = None
<1> USE DEF TypeInv, TypeOK, Report, Final, Resuming
<1>1. CASE ResumeReportRunning
  BY <1>1 DEF ResumeReportRunning
<1>2. CASE StoreWaitingAgain
  BY <1>2 DEF StoreWaitingAgain
<1>3. CASE ResumeReportOutcome
  BY <1>3 DEF ResumeReportOutcome, recVars
<1>4. CASE \/ InbEnter \/ InbReturns \/ ObserveReply
           \/ \E c \in Chats : ResumeAsks(c)
           \/ \E a \in Agents, c \in Chats : Intercept(a, c)
  BY <1>4 DEF InbEnter, InbReturns, ObserveReply, ResumeAsks, Intercept
<1> QED
  BY <1>1, <1>2, <1>3, <1>4 DEF InbNext

----------------------------------------------------------------------------
(* Each thread keeps SettledInv, and the outcomes stand in its steps.       *)

\* A poll loop is offered what has no outcome.
LEMMA PollSettles ==
  ASSUME Sound, SettledInv, NEW a \in Agents, PollNext(a)
  PROVE  SettledInv' /\ Stands
<1> USE RuntimeAssumption
        DEF Sound, TypeInv, TypeOK, SettledInv, Stands, Pending, Final,
            UnderExecution, NotElsewhere, Resuming, Recorded, procVars, recVars,
            inbVars, execVars, pollVars
<1>1. CASE PollCheck(a) \/ ClaimNothing(a) \/ PollWake(a)
  BY <1>1 DEF PollCheck, ClaimNothing, PollWake
<1>2. CASE SkipClaimed(a)
  BY <1>2 DEF SkipClaimed
<1>3. ASSUME NEW t \in Tasks, ClaimFound(a, t) PROVE SettledInv' /\ Stands
  BY <1>3 DEF ClaimFound
<1>4. ASSUME NEW t \in Tasks, ClaimAnswerLost(a, t) PROVE SettledInv' /\ Stands
  BY <1>4 DEF ClaimAnswerLost
<1>5. CASE RecordClaim(a)
  <2>1. disk' = disk
    BY <1>5 DEF RecordClaim, SaveState, RecordsSaved, DownInv
  <2>2. exec[offer[a]] = "none"
    BY <1>5 DEF RecordClaim, PoolInv, OfferInv
  <2> QED
    BY <1>5, <2>1, <2>2 DEF RecordClaim, OfferInv
<1>6. CASE SubmitClaim(a)
  BY <1>6 DEF SubmitClaim, OfferInv, PoolInv
<1> QED
  BY <1>1, <1>2, <1>3, <1>4, <1>5, <1>6 DEF PollNext

\* A worker that reports an outcome leaves the task to nobody.
LEMMA ExecSettles ==
  ASSUME ~Lossy, Sound, SettledInv, NEW t \in Tasks, ExecNext(t)
  PROVE  SettledInv' /\ Stands
<1>1. /\ TypeInv /\ RecordsSaved /\ PoolInv
      /\ exec \in [Tasks -> ExecPc] /\ server \in [Tasks -> ServerStatus]
      /\ disk \in [Keys -> Tasks \cup {None, Unnamed}]
  BY DEF Sound, TypeInv, TypeOK
<1>2. ExecMoves(t)
  BY <1>1, ExecEffect
<1>3. /\ UNCHANGED <<poll, offer, claimed, inbTask>>
      /\ \A u \in Tasks \ {t} : exec'[u] = exec[u] /\ server'[u] = server[u]
      /\ t \in claimed
      /\ ~(poll[AgentOf[t]] = "submit" /\ offer[AgentOf[t]] = t)
  <2>1. UNCHANGED <<poll, offer, claimed, inbTask>>
    BY <1>1, <1>2, ExecCustody DEF ExecMoves, pollVars, inbVars
  <2>2. \A u \in Tasks \ {t} : exec'[u] = exec[u] /\ server'[u] = server[u]
    BY <1>1, <1>2, ExecTells DEF ExecMoves
  <2>3. t \in claimed /\ ~(poll[AgentOf[t]] = "submit" /\ offer[AgentOf[t]] = t)
    BY <1>1, <1>2, RuntimeAssumption DEF ExecMoves, PoolInv
  <2> QED
    BY <2>1, <2>2, <2>3
<1>4. \A u \in Tasks \ {t} : Recorded(u)' => Recorded(u)
  BY <1>1, ExecCustody DEF Recorded
<1>5. \A u \in Tasks \ {t} : Pending(u)' => Pending(u)
  BY <1>3, <1>4 DEF Pending, UnderExecution, Resuming
<1>6. Recorded(t)' => Recorded(t) \/ exec[t] = "returned"
  BY <1>1, ExecCustody DEF Recorded
<1>7. UnderExecution(t)' => UnderExecution(t)
  BY <1>2, <1>3 DEF ExecMoves, UnderExecution
<1>8. Pending(t)' => Pending(t)
  BY <1>1, <1>3, <1>6, <1>7, ExecTells DEF Pending, UnderExecution, Resuming
<1>9. exec[t] \in {"preparing", "passed", "rejected", "completing", "failing"} =>
        ~Resuming(t) /\ ~Recorded(t)
  BY DEF Sound, CustodyInv, ExecutedHere, NotElsewhere, UnderExecution, SettledInv,
     Recorded
<1>10. \A u \in Tasks : exec'[u] \in {"completing", "failing"} => NotElsewhere(u)'
  <2>1. ASSUME NEW u \in Tasks \ {t}, exec'[u] \in {"completing", "failing"}
        PROVE  NotElsewhere(u)'
    BY <1>3, <1>4, <2>1 DEF SettledInv, NotElsewhere, Resuming, Recorded
  <2>2. exec'[t] \in {"completing", "failing"} => NotElsewhere(t)'
    BY <1>1, <1>3, <1>6, <1>9, ExecTells DEF NotElsewhere, Resuming, Recorded
  <2> QED
    BY <2>1, <2>2
<1>11. Pending(t)' => server'[t] \notin Final
  <2>1. CASE exec[t] = "preparing" /\ exec'[t] = "cloneFailed"
    BY <1>3, <1>6, <1>9, <2>1 DEF Pending, Resuming
  <2>2. CASE exec[t] \in {"completing", "failing"} /\ exec'[t] = "done"
    BY <1>3, <1>6, <1>9, <2>2 DEF Pending, Resuming, UnderExecution
  <2> QED
    BY <1>1, <1>8, <2>1, <2>2, ExecTells DEF SettledInv, Final
<1>12. server[t] \in Final => server'[t] \in {server[t], "waiting_user"}
  BY <1>1, ExecTells DEF SettledInv, Pending, UnderExecution
<1>13. ASSUME NEW a \in Agents, poll'[a] = "offered", offer'[a] \notin claimed'
       PROVE  server'[offer'[a]] \notin Final
  <2>1. offer[a] \in Tasks \ {t} /\ poll[a] = "offered"
    BY <1>1, <1>3, <1>13 DEF TypeInv, OfferInv
  <2> QED
    BY <1>3, <1>13, <2>1 DEF SettledInv
<1>14. \A u \in Tasks : Pending(u)' => server'[u] \notin Final
  BY <1>3, <1>5, <1>11 DEF SettledInv
<1>15. Stands
  BY <1>3, <1>12 DEF Stands
<1> QED
  BY <1>10, <1>13, <1>14, <1>15 DEF SettledInv

\* The inbound thread has a task for itself as it reports an outcome.
LEMMA InbSettles ==
  ASSUME ~Lossy, Sound, SettledInv, InbNext
  PROVE  SettledInv' /\ Stands
<1>1. /\ TypeInv /\ RecordsSaved
      /\ UNCHANGED <<poll, offer, claimed, exec>>
  BY InbEffect DEF Sound, pollVars, execVars
<1>2. \A t \in Tasks : Recorded(t)' \/ Resuming(t)' => Recorded(t) \/ Resuming(t)
  BY <1>1, InbRecords, RuntimeAssumption DEF RecordsShrink, Recorded, Resuming
<1>3. \A t \in Tasks : Pending(t)' => Pending(t)
  BY <1>1, <1>2 DEF Pending, UnderExecution
<1>4. \A t \in Tasks : Resuming(t) =>
        /\ ~Recorded(t) /\ ~UnderExecution(t)
        /\ exec[t] \notin {"completing", "failing"}
        /\ \A a \in Agents :
             poll[a] = "offered" /\ offer[a] \notin claimed => offer[a] # t
  BY DEF Sound, CustodyInv, ExecutedHere, ResumedHere, OfferedHere, NotElsewhere,
     SettledInv, Recorded
<1>5. ASSUME NEW t \in Tasks
      PROVE  /\ Pending(t)' => server'[t] \notin Final
             /\ server[t] \in Final => server'[t] = server[t]
  <2>1. CASE server'[t] = server[t]
    BY <1>3, <2>1 DEF SettledInv
  <2>2. CASE Resuming(t) /\ server'[t] \notin Final
    BY <2>2 DEF SettledInv, Pending
  <2>3. CASE Resuming(t) /\ disk' = disk /\ inbTask' = None
    BY <1>1, <1>4, <2>3, RuntimeAssumption
    DEF SettledInv, Pending, Resuming, Recorded, UnderExecution
  <2> QED
    BY <1>1, <2>1, <2>2, <2>3, InbTells
<1>6. \A t \in Tasks : exec'[t] \in {"completing", "failing"} => NotElsewhere(t)'
  BY <1>1, <1>2 DEF SettledInv, NotElsewhere, Recorded
<1>7. ASSUME NEW a \in Agents, poll'[a] = "offered", offer'[a] \notin claimed'
      PROVE  server'[offer'[a]] \notin Final
  <2>1. offer[a] \in Tasks
    BY <1>1, <1>7 DEF TypeInv, OfferInv
  <2> QED
    BY <1>1, <1>4, <1>7, <2>1, InbTells DEF SettledInv
<1> QED
  BY <1>5, <1>6, <1>7 DEF SettledInv, Stands

\* Stop, a crash and a restart leave the server and the file alone.
LEMMA ProcessSettles ==
  ASSUME Sound, SettledInv, ProcessNext
  PROVE  SettledInv' /\ Stands
<1> USE RuntimeAssumption
        DEF SettledInv, Stands, Pending, UnderExecution, NotElsewhere, Resuming,
            Recorded, pollVars, execVars, recVars, inbVars
<1>1. CASE StopRequested \/ ProcessStarts
  BY <1>1 DEF StopRequested, ProcessStarts
<1>2. CASE StopReturns
  <2>1. disk' = disk
    BY <1>2 DEF StopReturns, SaveState, Sound, RecordsSaved
  <2> QED
    BY <1>2, <2>1 DEF StopReturns
<1>3. CASE RuntimeStarts
  BY <1>3 DEF RuntimeStarts, Sound, TypeInv, TypeOK, DownInv
<1>4. CASE ProcessEnds
  BY <1>4 DEF ProcessEnds
<1> QED
  BY <1>1, <1>2, <1>3, <1>4 DEF ProcessNext

\* Every step keeps SettledInv, and the outcomes stand.
LEMMA SettledStep ==
  ASSUME ~Lossy, Sound, SettledInv, [Next]_vars
  PROVE  SettledInv' /\ [Stands]_vars
<1>1. CASE TakeFromPool
  <2>1. queue[1] \in Tasks /\ Head(queue) = queue[1] /\ exec[queue[1]] = "queued"
    BY <1>1 DEF TakeFromPool, Sound, TypeInv, TypeOK, PoolInv
  <2>2. /\ exec' = [exec EXCEPT ![queue[1]] = "claiming"]
        /\ UNCHANGED <<server, claimed, poll, offer, disk, inbTask>>
        /\ exec \in [Tasks -> ExecPc]
    BY <1>1, <2>1
    DEF TakeFromPool, pollVars, recVars, inbVars, Sound, TypeInv, TypeOK
  <2> QED
    BY <2>1, <2>2 DEF SettledInv, Stands, Pending, UnderExecution, NotElsewhere,
       Resuming, Recorded
<1>2. ASSUME NEW t \in Tasks, WdNext(t) PROVE SettledInv' /\ Stands
  BY <1>2, WdEffect DEF Sound, ActiveInv
<1>3. CASE UNCHANGED vars
  BY <1>3 DEF vars, SettledInv, Pending, UnderExecution, NotElsewhere, Resuming,
     Recorded
<1> QED
  BY <1>1, <1>2, <1>3, PollSettles, ExecSettles, InbSettles, ProcessSettles DEF Next

\* What the server was told about a task stands (ExecuteClaimedTask and
\* TryResumeWaitingTask against each other, the claims and crashes), as long
\* as no task times out and no call to the server is lost.
THEOREM OutcomesStand ==
  ASSUME ~TimeoutOn, ~Lossy
  PROVE  Spec => OutcomeIsSettled
<1>1. Init => SettledInv
  BY RuntimeAssumption DEF Init, SettledInv, Pending, UnderExecution, NotElsewhere,
     Resuming, Recorded, Final
<1>2. Sound /\ SettledInv /\ [Next]_vars => SettledInv' /\ [Stands]_vars
  BY SettledStep
<1>3. [Stands]_vars <=>
        [\A t \in Tasks : server[t] \in {"completed", "failed"} =>
           server'[t] \in {server[t], "waiting_user"}]_vars
  BY DEF Stands, Final
<1> QED
  BY <1>1, <1>2, <1>3, AlwaysSound, PTL DEF Spec, OutcomeIsSettled
=============================================================================
