----------------------------- MODULE CronProofs -----------------------------
(***************************************************************************)
(* Theorems about the cron service for every choice of its constants: its  *)
(* types, and that the clock runs a one-time job once.                     *)
(***************************************************************************)
EXTENDS Cron, SelectionProofs

----------------------------------------------------------------------------
(* The inductive invariant *)

\* Ids that were given out, none of them twice.
Listed(s, ids) ==
  /\ \A k \in DOMAIN s : s[k].id \in ids \cup {Nameless}
  /\ \A k, l \in DOMAIN s : s[k].id = s[l].id => k = l \/ s[k].id = Nameless

\* The store, the file and what is about to be written to it.
StoredInv ==
  /\ Listed(jobs, used)
  /\ file # Unreadable => Listed(file, used)
  /\ \A th \in Threads : Listed(data[th], used)

\* The daily job is added where there is none; the heartbeat thread is there after the
\* service has started; a callback has a job.
PhaseInv ==
  /\ phase = "dailyAdd" => \A k \in DOMAIN jobs : jobs[k].id # Daily
  /\ hb # "off" => phase \notin {"begin", "thread", "down"}
  /\ InCallback => round.job # None

StoreInv == TypeOK /\ StoredInv /\ PhaseInv

OneTime == {j \in Jobs : Kind[j] # "repeat"}

\* A one-time job is due only if its time has come, and never waits for it again.
PastInv ==
  \A j \in OneTime :
    /\ runs[j] > 0 => j \in past
    /\ \A k \in DOMAIN jobs : jobs[k].id = j =>
         /\ jobs[k].next = "due" => j \in past
         /\ jobs[k].next = "later" => j \notin past

\* While a callback runs the reference of the loop is good and its job is where the loop
\* found it.  A one-time job that has been run is due only until its callback is over.
OnceInv ==
  disturbed = "no" =>
    /\ ~round.dangling
    /\ InCallback /\ round.job \in Jobs =>
         round.at \in DOMAIN jobs /\ jobs[round.at].id = round.job
    /\ \A j \in OneTime :
         /\ runs[j] <= 1
         /\ \A k \in DOMAIN jobs : jobs[k].id = j /\ jobs[k].next = "due" =>
              runs[j] = 0 \/ (InCallback /\ round.job = j)

----------------------------------------------------------------------------
(* What an operation may make of the vector *)

\* Every job of js is a job of the vector, in its own place, or without id.
From(js, f) ==
  /\ js \in Seq(Entry) /\ Len(js) <= Len(jobs)
  /\ f \in [DOMAIN js -> DOMAIN jobs]
  /\ \A k, l \in DOMAIN js : f[k] = f[l] => k = l
  /\ \A k \in DOMAIN js : js[k].id = Nameless \/ js[k].id = jobs[f[k]].id

\* Its next run is the same, none, or one that is still to come.
Rested(js, f) ==
  \A k \in DOMAIN js :
    \/ js[k].id = Nameless
    \/ js[k].next \in {jobs[f[k]].next, "none"}
    \/ js[k].next = "later" /\ js[k].id \notin past \cap OneTime

LEMMA FromListed ==
  ASSUME StoreInv, NEW js, NEW f, From(js, f)
  PROVE  /\ Listed(js, used)
         /\ Len(js) <= capacity
         /\ \A j \in Jobs : (\A k \in DOMAIN jobs : jobs[k].id # j) =>
              \A k \in DOMAIN js : js[k].id # j
<1>1. Len(js) <= capacity
  BY DEF From, StoreInv, TypeOK, Entry
<1>a. Listed(jobs, used)
  BY DEF StoreInv, StoredInv
<1>2. Listed(js, used)
  <2>1. \A k \in DOMAIN js : f[k] \in DOMAIN jobs
    BY DEF From
  <2>2. \A k \in DOMAIN js : js[k].id \in used \cup {Nameless}
    BY <1>a, <2>1 DEF From, Listed
  <2>3. ASSUME NEW k \in DOMAIN js, NEW l \in DOMAIN js, js[k].id = js[l].id,
               js[k].id # Nameless
        PROVE  k = l
    <3>1. jobs[f[k]].id = jobs[f[l]].id /\ jobs[f[k]].id # Nameless
      BY <2>3 DEF From
    <3>2. f[k] = f[l]
      BY <1>a, <2>1, <3>1 DEF Listed
    <3> QED
      BY <3>2 DEF From
  <2> QED
    BY <2>2, <2>3 DEF Listed
<1>3. \A j \in Jobs : (\A k \in DOMAIN jobs : jobs[k].id # j) =>
              \A k \in DOMAIN js : js[k].id # j
  BY CronAssumption DEF From
<1> QED
  BY <1>1, <1>2, <1>3

LEMMA RestedFacts ==
  ASSUME StoreInv, PastInv, NEW js, NEW f, From(js, f), Rested(js, f)
  PROVE  \A j \in OneTime : \A k \in DOMAIN js : js[k].id = j =>
           /\ js[k].next = "later" => j \notin past
           /\ js[k].next = "due" => \E l \in DOMAIN jobs : jobs[l].id = j /\ jobs[l].next = "due"
<1> SUFFICES ASSUME NEW j \in OneTime, NEW k \in DOMAIN js, js[k].id = j
             PROVE  /\ js[k].next = "later" => j \notin past
                    /\ js[k].next = "due" => \E l \in DOMAIN jobs : jobs[l].id = j /\ jobs[l].next = "due"
  OBVIOUS
<1>1. j \in Jobs /\ j # Nameless
  BY CronAssumption DEF OneTime
<1>2. f[k] \in DOMAIN jobs /\ jobs[f[k]].id = j
  BY <1>1 DEF From
<1>3. jobs[f[k]].next = "later" => j \notin past
  BY <1>2 DEF PastInv
<1> QED
  BY <1>1, <1>2, <1>3 DEF Rested

\* An erased vector.
LEMMA ErasedFacts ==
  ASSUME StoreInv, NEW D
  PROVE  \E f : /\ From(EntriesAt(jobs, D), f)
                /\ \A k \in DOMAIN EntriesAt(jobs, D) :
                     f[k] \in D /\ EntriesAt(jobs, D)[k] = jobs[f[k]]
<1> DEFINE js == EntriesAt(jobs, D)
<1>1. jobs \in Seq(Entry)
  BY DEF StoreInv, TypeOK
<1>2. js \in Seq(Entry) /\ \E f : Keeps(jobs, D, Len(jobs), js, f)
  BY <1>1, EntriesFacts
<1>3. PICK f : Keeps(jobs, D, Len(jobs), js, f)
  BY <1>2
<1>4. DOMAIN js = 1 .. Len(js) /\ Len(js) \in Nat /\ DOMAIN jobs = 1 .. Len(jobs)
  BY <1>1, <1>2
<1> HIDE DEF js
<1>5. /\ \A k \in DOMAIN js : f[k] \in D /\ js[k] = jobs[f[k]] /\ f[k] \in DOMAIN jobs
      /\ f \in [DOMAIN js -> DOMAIN jobs] /\ Len(js) <= Len(jobs)
  BY <1>3, <1>4 DEF Keeps
<1>6. \A k, l \in DOMAIN js : f[k] = f[l] => k = l
  <2> SUFFICES ASSUME NEW k \in DOMAIN js, NEW l \in DOMAIN js, f[k] = f[l], k # l
               PROVE  FALSE
    OBVIOUS
  <2>1. k < l \/ l < k
    BY <1>4
  <2>2. f[k] \in Nat /\ f[l] \in Nat
    BY <1>4, <1>5
  <2> QED
    BY <1>3, <1>4, <2>1, <2>2 DEF Keeps
<1>7. From(js, f)
  BY <1>2, <1>5, <1>6 DEF From
<1> QED
  BY <1>5, <1>7 DEF js

\* What a save leaves behind.
LEMMA SaveFacts ==
  ASSUME StoreInv, NEW th \in Threads, NEW js \in Seq(Entry), NEW ids, used \subseteq ids,
         ids \subseteq Jobs,
         Listed(js, ids), BeginSave(th, js)
  PROVE  /\ saving' \in [Threads -> BOOLEAN] /\ data' \in [Threads -> Seq(Saved)]
         /\ file' = Unreadable
         /\ \A other \in Threads : Listed(data'[other], ids)
<1> DEFINE saved == [k \in DOMAIN js |-> [id |-> js[k].id, enabled |-> js[k].enabled]]
<1>1. DOMAIN js = 1 .. Len(js) /\ Len(js) \in Nat
  OBVIOUS
<1>a. \A k \in DOMAIN js : js[k] \in Entry
  BY <1>1
<1>2. \A k \in DOMAIN js : js[k].id \in Jobs \cup {Nameless} /\ js[k].enabled \in BOOLEAN
  BY <1>a DEF Entry
<1>3. \A k \in DOMAIN js : [id |-> js[k].id, enabled |-> js[k].enabled] \in Saved
  BY <1>2 DEF Saved
<1>4. saved \in Seq(Saved)
  BY <1>1, <1>3, SeqDef
<1>5. Listed(saved, ids)
  BY DEF Listed
<1>6. /\ saving' = [saving EXCEPT ![th] = TRUE] /\ file' = Unreadable
      /\ data' = [data EXCEPT ![th] = saved]
  BY DEF BeginSave
<1> HIDE DEF saved
<1>7. \A other \in Threads : data'[other] = IF other = th THEN saved ELSE data[other]
  BY <1>6 DEF StoreInv, TypeOK
<1>8. \A other \in Threads : Listed(data[other], ids)
  BY DEF StoreInv, StoredInv, Listed
<1>9. saving' \in [Threads -> BOOLEAN]
  BY <1>6 DEF StoreInv, TypeOK
<1>10. data' \in [Threads -> Seq(Saved)]
  BY <1>4, <1>6 DEF StoreInv, TypeOK
<1> QED
  BY <1>5, <1>6, <1>7, <1>8, <1>9, <1>10

LEMMA AfterRunFacts ==
  ASSUME StoreInv, NEW j \in Jobs \cup {Nameless}
  PROVE  /\ From(AfterRun(j), [k \in DOMAIN jobs |-> k])
         /\ Rested(AfterRun(j), [k \in DOMAIN jobs |-> k])
         /\ DOMAIN AfterRun(j) = DOMAIN jobs
         /\ \A k \in DOMAIN jobs : AfterRun(j)[k].id = jobs[k].id
         /\ j \in Jobs /\ Kind[j] = "atKept" =>
              \A k \in DOMAIN jobs : jobs[k].id = j => AfterRun(j)[k].next = "none"
<1> DEFINE f == [k \in DOMAIN jobs |-> k]
           js == AfterRun(j)
<1>0. jobs \in Seq(Entry) /\ DOMAIN jobs = 1 .. Len(jobs) /\ Len(jobs) \in Nat
  BY DEF StoreInv, TypeOK
<1>1. \A k \in DOMAIN jobs : jobs[k] \in Entry
  BY <1>0
<1>2. DOMAIN js = DOMAIN jobs
  BY DEF AfterRun
<1>3. ASSUME NEW k \in DOMAIN jobs
      PROVE  /\ js[k] \in Entry /\ js[k].id = jobs[k].id
             /\ \/ js[k].next \in {jobs[k].next, "none"}
                \/ js[k].next = "later" /\ js[k].id \notin OneTime
             /\ j \in Jobs /\ Kind[j] = "atKept" /\ jobs[k].id = j => js[k].next = "none"
  <2>1. CASE jobs[k].id # j \/ j = Nameless
    <3>1. js[k] = jobs[k]
      BY <2>1 DEF AfterRun
    <3> QED
      BY <1>1, <2>1, <3>1, CronAssumption
  <2>2. CASE jobs[k].id = j /\ j # Nameless
    <3>1. j \in Jobs /\ Kind[j] \in {"at", "atKept", "repeat"}
      BY <2>2, CronAssumption
    <3>2. CASE Kind[j] = "at"
      <4>1. js[k] = jobs[k]
        BY <2>2, <3>2 DEF AfterRun
      <4> QED
        BY <1>1, <3>2, <4>1
    <3>3. CASE Kind[j] = "atKept"
      <4>1. js[k] = [jobs[k] EXCEPT !.enabled = FALSE, !.next = "none"]
        BY <2>2, <3>3 DEF AfterRun
      <4> QED
        BY <1>1, <4>1 DEF Entry
    <3>4. CASE Kind[j] = "repeat"
      <4>1. js[k] = [jobs[k] EXCEPT !.next = "later"]
        BY <2>2, <3>4 DEF AfterRun
      <4> QED
        BY <1>1, <2>2, <3>4, <4>1 DEF Entry, OneTime
    <3> QED
      BY <3>1, <3>2, <3>3, <3>4
  <2> QED
    BY <2>1, <2>2
<1> HIDE DEF js
<1>4. js \in Seq(Entry) /\ Len(js) = Len(jobs)
  <2>1. js \in [1 .. Len(jobs) -> Entry]
    <3>1. \A k \in DOMAIN jobs : js[k] \in Entry
      BY <1>3
    <3>2. js = [k \in DOMAIN jobs |-> js[k]]
      <4> DEFINE e(k) ==
            IF jobs[k].id # j \/ j = Nameless THEN jobs[k]
            ELSE CASE Kind[j] = "at" -> jobs[k]
                   [] Kind[j] = "atKept" ->
                        [jobs[k] EXCEPT !.enabled = FALSE, !.next = "none"]
                   [] Kind[j] = "repeat" -> [jobs[k] EXCEPT !.next = "later"]
      <4>1. js = [k \in DOMAIN jobs |-> e(k)]
        BY DEF js, AfterRun
      <4> HIDE DEF e, js
      <4> QED
        BY <4>1
    <3> QED
      BY <1>0, <3>1, <3>2
  <2> QED
    BY <1>0, <2>1, SeqDef, LenProperties
<1>5. From(js, f)
  BY <1>2, <1>3, <1>4 DEF From
<1>6. Rested(js, f)
  BY <1>2, <1>3 DEF Rested
<1> QED
  BY <1>2, <1>3, <1>5, <1>6 DEF js

\* What a change of the vector that gives nothing a run keeps.
DueBefore(js) ==
  \A j \in OneTime : \A k \in DOMAIN js : js[k].id = j /\ js[k].next = "due" =>
    \E l \in DOMAIN jobs : jobs[l].id = j /\ jobs[l].next = "due"

LEMMA ChangeFacts ==
  ASSUME StoreInv, PastInv, NEW f, From(jobs', f), Rested(jobs', f),
         past' = past, used' = used, runs' = runs
  PROVE  /\ jobs' \in Seq(Entry) /\ Len(jobs') <= capacity
         /\ \A k, l \in DOMAIN jobs' : jobs'[k].id = jobs'[l].id => k = l \/ jobs'[k].id = Nameless
         /\ Listed(jobs', used')
         /\ \A j \in Jobs : (\A k \in DOMAIN jobs : jobs[k].id # j) =>
              \A k \in DOMAIN jobs' : jobs'[k].id # j
         /\ DueBefore(jobs')
         /\ PastInv'
<1>1. jobs' \in Seq(Entry)
  BY DEF From
<1>2. PICK js : js = jobs'
  OBVIOUS
<1>3. From(js, f) /\ Rested(js, f)
  BY <1>2
<1>4. /\ Listed(js, used) /\ Len(js) <= capacity
      /\ \A j \in Jobs : (\A k \in DOMAIN jobs : jobs[k].id # j) =>
           \A k \in DOMAIN js : js[k].id # j
  BY <1>3, FromListed
<1>5. \A j \in OneTime : \A k \in DOMAIN js : js[k].id = j =>
           /\ js[k].next = "later" => j \notin past
           /\ js[k].next = "due" => \E l \in DOMAIN jobs : jobs[l].id = j /\ jobs[l].next = "due"
  BY <1>3, RestedFacts
<1>6. DueBefore(js)
  BY <1>5 DEF DueBefore
<1>7. ASSUME NEW j \in OneTime
      PROVE  /\ runs[j] > 0 => j \in past
             /\ \A k \in DOMAIN js : js[k].id = j =>
                  /\ js[k].next = "due" => j \in past
                  /\ js[k].next = "later" => j \notin past
  BY <1>5 DEF PastInv
<1>8. PastInv'
  BY <1>2, <1>7 DEF PastInv, OneTime
<1>9. Listed(js, used') /\ \A k, l \in DOMAIN js : js[k].id = js[l].id => k = l \/ js[k].id = Nameless
  BY <1>4 DEF Listed
<1> QED
  BY <1>1, <1>2, <1>4, <1>6, <1>8, <1>9

\* A change while a callback may run: it leaves the jobs where they are, or the loop is
\* disturbed.
LEMMA OnceKept ==
  ASSUME OnceInv, DueBefore(jobs'), runs' = runs, hb' = hb,
         round'.job = round.job, round'.at = round.at,
         disturbed' = "no" => /\ disturbed = "no" /\ round'.dangling = round.dangling
                              /\ InCallback => /\ DOMAIN jobs' = DOMAIN jobs
                                               /\ \A k \in DOMAIN jobs : jobs'[k].id = jobs[k].id
  PROVE  OnceInv'
<1> SUFFICES ASSUME disturbed' = "no"
             PROVE  /\ ~round'.dangling
                    /\ InCallback' /\ round'.job \in Jobs =>
                         round'.at \in DOMAIN jobs' /\ jobs'[round'.at].id = round'.job
                    /\ \A j \in OneTime :
                         /\ runs'[j] <= 1
                         /\ \A k \in DOMAIN jobs' : jobs'[k].id = j /\ jobs'[k].next = "due" =>
                              runs'[j] = 0 \/ (InCallback' /\ round'.job = j)
  BY DEF OnceInv, OneTime
<1>1. InCallback' <=> InCallback
  BY DEF InCallback
<1>2. ~round'.dangling
  BY DEF OnceInv
<1>3. InCallback' /\ round'.job \in Jobs =>
        round'.at \in DOMAIN jobs' /\ jobs'[round'.at].id = round'.job
  BY <1>1 DEF OnceInv
<1>4. ASSUME NEW j \in OneTime
      PROVE  /\ runs'[j] <= 1
             /\ \A k \in DOMAIN jobs' : jobs'[k].id = j /\ jobs'[k].next = "due" =>
                  runs'[j] = 0 \/ (InCallback' /\ round'.job = j)
  <2>1. runs[j] <= 1
    BY DEF OnceInv
  <2>2. ASSUME NEW k \in DOMAIN jobs', jobs'[k].id = j, jobs'[k].next = "due"
        PROVE  runs[j] = 0 \/ (InCallback /\ round.job = j)
    <3>1. PICK l \in DOMAIN jobs : jobs[l].id = j /\ jobs[l].next = "due"
      BY <2>2 DEF DueBefore
    <3> QED
      BY <3>1 DEF OnceInv
  <2> QED
    BY <1>1, <2>1, <2>2
<1> QED
  BY <1>2, <1>3, <1>4

\* A change while no callback runs, nor after it.
LEMMA OnceOutside ==
  ASSUME OnceInv, DueBefore(jobs'), runs' = runs, ~InCallback, ~InCallback',
         disturbed' = "no" => disturbed = "no" /\ (round'.dangling => round.dangling)
  PROVE  OnceInv'
<1> SUFFICES ASSUME disturbed' = "no"
             PROVE  /\ ~round'.dangling
                    /\ \A j \in OneTime :
                         /\ runs'[j] <= 1
                         /\ \A k \in DOMAIN jobs' : jobs'[k].id = j /\ jobs'[k].next = "due" =>
                              runs'[j] = 0
  BY DEF OnceInv, OneTime
<1>1. ~round'.dangling
  BY DEF OnceInv
<1>2. ASSUME NEW j \in OneTime
      PROVE  /\ runs'[j] <= 1
             /\ \A k \in DOMAIN jobs' : jobs'[k].id = j /\ jobs'[k].next = "due" => runs'[j] = 0
  <2>1. runs[j] <= 1
    BY DEF OnceInv
  <2>2. ASSUME NEW k \in DOMAIN jobs', jobs'[k].id = j, jobs'[k].next = "due"
        PROVE  runs[j] = 0
    <3>1. PICK l \in DOMAIN jobs : jobs[l].id = j /\ jobs[l].next = "due"
      BY <2>2 DEF DueBefore
    <3> QED
      BY <3>1 DEF OnceInv
  <2> QED
    BY <2>1, <2>2
<1> QED
  BY <1>1, <1>2

CronInv == StoreInv /\ PastInv /\ OnceInv

\* The type of round, and where the heartbeat thread and the main thread can be.
Round == [at : Nat, end : Nat, job : Jobs \cup {None, Nameless},
          dangling : BOOLEAN, changed : BOOLEAN, notYet : SUBSET Jobs]
Phases == {"begin", "thread", "daily", "dailyAdd", "on", "stopping", "joining", "off", "down"}
HbPlaces == {"off", "sleep", "scan", "call", "turn", "called", "beat", "beatTurn", "exited"}

----------------------------------------------------------------------------
(* The cron tool *)

\* Erase, wherever it is called.
LEMMA EraseStep ==
  ASSUME CronInv, NEW th \in Threads, NEW j \in Jobs, Erase(th, j),
         UNCHANGED <<capacity, time, running, hb, turn, turns, hand, runs>>,
         ops' \in [Threads -> Nat],
         phase' \in {"begin", "thread", "daily", "dailyAdd", "on", "stopping", "joining", "off", "down"},
         starts' \in Nat,
         phase' = "dailyAdd" => j = Daily \/ phase = "dailyAdd",
         hb # "off" => phase' \notin {"begin", "thread", "down"}
  PROVE  CronInv'
<1> DEFINE D == {k \in DOMAIN jobs : jobs[k].id # j}
<1>1. /\ jobs' = EntriesAt(jobs, D) /\ Disturbs(FALSE) /\ BeginSave(th, jobs')
  BY DEF Erase
<1>2. PICK f : /\ From(jobs', f)
               /\ \A k \in DOMAIN jobs' : f[k] \in D /\ jobs'[k] = jobs[f[k]]
  <2> HIDE DEF D
  <2>1. \E f : /\ From(EntriesAt(jobs, D), f)
               /\ \A k \in DOMAIN EntriesAt(jobs, D) :
                    f[k] \in D /\ EntriesAt(jobs, D)[k] = jobs[f[k]]
    BY ErasedFacts DEF CronInv
  <2> QED
    BY <1>1, <2>1, Zenon
<1>3. Rested(jobs', f)
  BY <1>2 DEF Rested
<1>4. past' = past /\ used' = used /\ runs' = runs /\ capacity' = capacity
  BY DEF time
<1>5. /\ jobs' \in Seq(Entry) /\ Len(jobs') <= capacity
      /\ \A k, l \in DOMAIN jobs' : jobs'[k].id = jobs'[l].id => k = l \/ jobs'[k].id = Nameless
      /\ Listed(jobs', used')
      /\ \A i \in Jobs : (\A k \in DOMAIN jobs : jobs[k].id # i) =>
           \A k \in DOMAIN jobs' : jobs'[k].id # i
      /\ DueBefore(jobs')
      /\ PastInv'
  BY <1>2, <1>3, <1>4, ChangeFacts DEF CronInv
<1>6. used \subseteq Jobs
  BY DEF CronInv, StoreInv, TypeOK
<1>7. PICK js : js = jobs'
  OBVIOUS
<1>8. /\ saving' \in [Threads -> BOOLEAN] /\ data' \in [Threads -> Seq(Saved)]
      /\ file' = Unreadable
      /\ \A other \in Threads : Listed(data'[other], used)
  <2>1. js \in Seq(Entry) /\ Listed(js, used) /\ BeginSave(th, js)
    BY <1>1, <1>4, <1>5, <1>7
  <2> QED
    BY <1>6, <2>1, SaveFacts DEF CronInv
<1>9. /\ round' = [round EXCEPT !.dangling = @ \/ (InCallback /\ FALSE)]
      /\ disturbed' = IF ~InCallback \/ disturbed = "freed" THEN disturbed ELSE "moved"
  BY <1>1 DEF Disturbs
<1>10. round' = round
  BY <1>9 DEF CronInv, StoreInv, TypeOK
<1>11. TypeOK'
  BY <1>4, <1>5, <1>8, <1>9, <1>10 DEF CronInv, StoreInv, TypeOK, time
<1>12. StoredInv'
  BY <1>4, <1>5, <1>8 DEF StoredInv
<1>13. PhaseInv'
  <2>1. \A k \in DOMAIN jobs' : jobs'[k].id # j
    BY <1>2
  <2>2. phase = "dailyAdd" => \A k \in DOMAIN jobs' : jobs'[k].id # Daily
    <3>1. CASE Daily \in Jobs
      BY <1>5, <3>1 DEF CronInv, StoreInv, PhaseInv
    <3>2. CASE Daily = None
      <4>1. \A k \in DOMAIN jobs' : jobs'[k].id \in Jobs \cup {Nameless}
        BY <1>4, <1>5, <1>6 DEF Listed
      <4> QED
        BY <3>2, <4>1, CronAssumption
    <3> QED
      BY <3>1, <3>2, CronAssumption
  <2>3. InCallback' <=> InCallback
    BY DEF InCallback
  <2> QED
    BY <1>10, <2>1, <2>2, <2>3 DEF CronInv, StoreInv, PhaseInv
<1>14. OnceInv'
  <2>1. disturbed' = "no" => disturbed = "no" /\ ~InCallback
    BY <1>9
  <2> QED
    BY <1>4, <1>5, <1>10, <2>1, OnceKept DEF CronInv
<1> QED
  BY <1>5, <1>11, <1>12, <1>13, <1>14 DEF CronInv, StoreInv

\* Insert, wherever it is called, of a job that is not in the vector.
LEMMA InsertStep ==
  ASSUME CronInv, NEW th \in Threads, NEW j \in Jobs, Insert(th, j),
         \A k \in DOMAIN jobs : jobs[k].id # j,
         UNCHANGED <<past, running, hb, turn, turns, hand, runs>>,
         ops' \in [Threads -> Nat],
         phase' \in {"begin", "thread", "daily", "dailyAdd", "on", "stopping", "joining", "off", "down"},
         starts' \in Nat,
         phase' = "dailyAdd" => j # Daily /\ phase = "dailyAdd",
         hb # "off" => phase' \notin {"begin", "thread", "down"}
  PROVE  CronInv'
<1> DEFINE e == [id |-> j, enabled |-> TRUE, next |-> ComputeNextRun(j)]
           js == Append(jobs, e)
           n == Len(jobs)
<1>1. /\ jobs' = js /\ capacity' = Grown(capacity, Len(js)) /\ used' = used \cup {j}
      /\ Disturbs(Len(js) > capacity) /\ BeginSave(th, js)
  BY DEF Insert
<1>2. jobs \in Seq(Entry) /\ n \in Nat /\ DOMAIN jobs = 1 .. n /\ n <= capacity /\ capacity \in Nat
  BY DEF CronInv, StoreInv, TypeOK
<1>3. e \in Entry /\ e.id = j /\ e.next \in {"none", "later"}
      /\ (j \in OneTime /\ e.next = "later" => j \notin past)
  BY DEF Entry, ComputeNextRun, OneTime
<1> HIDE DEF e
<1>4. /\ js \in Seq(Entry) /\ Len(js) = n + 1 /\ DOMAIN js = 1 .. n + 1
      /\ js[n + 1] = e /\ \A k \in 1 .. n : js[k] = jobs[k]
  BY <1>2, <1>3
<1>5. \A k \in DOMAIN js : k = n + 1 \/ (k \in DOMAIN jobs /\ js[k] = jobs[k])
  BY <1>2, <1>4
<1>6. Len(js) <= capacity' /\ capacity' \in Nat
  BY <1>1, <1>2, <1>4 DEF Grown
<1> HIDE DEF js, n
<1>7. used \subseteq Jobs /\ used' \subseteq Jobs /\ used \subseteq used'
  BY <1>1 DEF CronInv, StoreInv, TypeOK
<1>8. Listed(jobs, used)
  BY DEF CronInv, StoreInv, StoredInv
<1>9. \A k, l \in DOMAIN js : js[k].id = js[l].id => k = l \/ js[k].id = Nameless
  BY <1>3, <1>4, <1>5, <1>8 DEF Listed
<1>10. Listed(js, used')
  <2>1. \A k \in DOMAIN js : js[k].id \in used' \cup {Nameless}
    BY <1>1, <1>3, <1>4, <1>5, <1>8 DEF Listed
  <2> QED
    BY <1>9, <2>1 DEF Listed
<1>11. /\ saving' \in [Threads -> BOOLEAN] /\ data' \in [Threads -> Seq(Saved)]
       /\ file' = Unreadable
       /\ \A other \in Threads : Listed(data'[other], used')
  <2>1. PICK ids : ids = used'
    OBVIOUS
  <2>2. used \subseteq ids /\ ids \subseteq Jobs /\ Listed(js, ids)
    BY <1>7, <1>10, <2>1
  <2>3. /\ saving' \in [Threads -> BOOLEAN] /\ data' \in [Threads -> Seq(Saved)]
        /\ file' = Unreadable
        /\ \A other \in Threads : Listed(data'[other], ids)
    BY <1>1, <1>4, <2>2, SaveFacts DEF CronInv
  <2> QED
    BY <2>1, <2>3
<1>12. /\ round' = [round EXCEPT !.dangling = @ \/ (InCallback /\ Len(js) > capacity)]
       /\ disturbed' = IF ~InCallback \/ disturbed = "freed" THEN disturbed
                       ELSE IF Len(js) > capacity THEN "freed" ELSE "moved"
  BY <1>1 DEF Disturbs
<1> DEFINE grows == InCallback /\ Len(js) > capacity
<1>13. grows \in BOOLEAN
  OBVIOUS
<1>14. /\ round'.job = round.job /\ round'.at = round.at
       /\ round' \in Round
       /\ ~InCallback => round' = round
  <2>1. round' = [round EXCEPT !.dangling = @ \/ grows]
    BY <1>12
  <2>2. ~InCallback => grows = FALSE
    OBVIOUS
  <2>3. round \in Round
    BY DEF CronInv, StoreInv, TypeOK, Round
  <2> HIDE DEF grows
  <2> QED
    BY <1>13, <2>1, <2>2, <2>3 DEF Round
<1>15. TypeOK'
  BY <1>1, <1>4, <1>6, <1>7, <1>9, <1>11, <1>12, <1>14 DEF CronInv, StoreInv, TypeOK
<1>16. StoredInv'
  BY <1>1, <1>10, <1>11 DEF StoredInv
<1>17. InCallback' <=> InCallback
  BY DEF InCallback
<1>18. PhaseInv'
  <2>1. phase' = "dailyAdd" => \A k \in DOMAIN js : js[k].id # Daily
    BY <1>3, <1>4, <1>5 DEF CronInv, StoreInv, PhaseInv
  <2> QED
    BY <1>1, <1>14, <1>17, <2>1 DEF CronInv, StoreInv, PhaseInv
<1>19. PastInv'
  <2>1. \A i \in OneTime : \A k \in DOMAIN js : js[k].id = i =>
          /\ js[k].next = "due" => i \in past
          /\ js[k].next = "later" => i \notin past
    BY <1>3, <1>4, <1>5 DEF CronInv, PastInv
  <2>2. \A i \in OneTime : runs[i] > 0 => i \in past
    BY DEF CronInv, PastInv
  <2> QED
    BY <1>1, <2>1, <2>2 DEF PastInv, OneTime
<1>20. OnceInv'
  <2>1. DueBefore(jobs')
    <3>1. \A i \in OneTime : \A k \in DOMAIN js : js[k].id = i /\ js[k].next = "due" =>
            \E l \in DOMAIN jobs : jobs[l].id = i /\ jobs[l].next = "due"
      BY <1>3, <1>4, <1>5
    <3> QED
      BY <1>1, <3>1 DEF DueBefore
  <2>2. disturbed' = "no" => disturbed = "no" /\ ~InCallback
    BY <1>12
  <2> QED
    BY <1>14, <2>1, <2>2, OnceKept DEF CronInv
<1> QED
  BY <1>15, <1>16, <1>18, <1>19, <1>20 DEF CronInv, StoreInv

LEMMA ToolStep ==
  ASSUME CronInv, NEW th \in Threads, ThreadNext(th)
  PROVE  CronInv'
<1> USE DEF CronInv
<1>0. /\ phase \in {"begin", "thread", "daily", "dailyAdd", "on", "stopping", "joining", "off", "down"}
      /\ starts \in Nat /\ (hb # "off" => phase \notin {"begin", "thread", "down"})
      /\ ops \in [Threads -> Nat] /\ used \subseteq Jobs
  BY DEF StoreInv, TypeOK, PhaseInv
<1>1. CASE WriteFile(th)
  <2>1. UNCHANGED <<store, time, proc, hb, round, turnVars, hist>>
    BY <1>1 DEF WriteFile
  <2>2. /\ saving' = [saving EXCEPT ![th] = FALSE] /\ data' = [data EXCEPT ![th] = <<>>]
        /\ file' \in {data[th], Unreadable}
    BY <1>1 DEF WriteFile
  <2>3. data[th] \in Seq(Saved) /\ Listed(data[th], used)
    BY DEF StoreInv, TypeOK, StoredInv
  <2>4. TypeOK'
    BY <2>1, <2>2, <2>3 DEF StoreInv, TypeOK, store, time, proc, turnVars, hist
  <2>5. Listed(<<>>, used)
    BY DEF Listed
  <2>6. StoredInv'
    <3>1. \A other \in Threads : data'[other] \in {data[other], <<>>}
      BY <2>2 DEF StoreInv, TypeOK
    <3>2. \A other \in Threads : Listed(data'[other], used)
      BY <2>5, <3>1 DEF StoreInv, StoredInv
    <3>3. file' # Unreadable => Listed(file', used)
      BY <2>2, <2>3
    <3> QED
      BY <2>1, <3>2, <3>3 DEF StoreInv, StoredInv, store, time
  <2>7. PhaseInv' /\ PastInv' /\ OnceInv'
    BY <2>1 DEF StoreInv, PhaseInv, PastInv, OnceInv, InCallback, OneTime, store, time, proc, hist
  <2> QED
    BY <2>4, <2>6, <2>7 DEF StoreInv
<1>2. CASE RunByHand(th)
  <2> DEFINE j == hand[th]
             f == [k \in DOMAIN jobs |-> k]
  <2>1. j \in Jobs
    BY <1>2 DEF RunByHand, StoreInv, TypeOK
  <2>2. /\ jobs' = AfterRun(j) /\ BeginSave(th, jobs')
        /\ UNCHANGED <<capacity, time, proc, hb, round, turn, ops, turns, hist>>
        /\ hand' = [hand EXCEPT ![th] = None]
    BY <1>2 DEF RunByHand
  <2> HIDE DEF j, f
  <2>3. /\ From(AfterRun(j), f) /\ Rested(AfterRun(j), f) /\ DOMAIN AfterRun(j) = DOMAIN jobs
        /\ \A k \in DOMAIN jobs : AfterRun(j)[k].id = jobs[k].id
    BY <2>1, AfterRunFacts DEF f
  <2>4. /\ From(jobs', f) /\ Rested(jobs', f) /\ DOMAIN jobs' = DOMAIN jobs
        /\ \A k \in DOMAIN jobs : jobs'[k].id = jobs[k].id
    BY <2>2, <2>3, Zenon
  <2>5. /\ past' = past /\ used' = used /\ runs' = runs /\ capacity' = capacity
        /\ disturbed' = disturbed
    BY <2>2 DEF time, hist
  <2>6. /\ jobs' \in Seq(Entry) /\ Len(jobs') <= capacity
        /\ \A k, l \in DOMAIN jobs' : jobs'[k].id = jobs'[l].id => k = l \/ jobs'[k].id = Nameless
        /\ Listed(jobs', used')
        /\ DueBefore(jobs') /\ PastInv'
    BY <2>4, <2>5, ChangeFacts
  <2>7. PICK js : js = jobs'
    OBVIOUS
  <2>8. /\ saving' \in [Threads -> BOOLEAN] /\ data' \in [Threads -> Seq(Saved)]
        /\ file' = Unreadable
        /\ \A other \in Threads : Listed(data'[other], used)
    <3>1. js \in Seq(Entry) /\ Listed(js, used) /\ BeginSave(th, js)
      BY <2>2, <2>5, <2>6, <2>7
    <3> QED
      BY <1>0, <3>1, SaveFacts
  <2>9. hand' \in [Threads -> Jobs \cup {None}]
    BY <2>2 DEF StoreInv, TypeOK
  <2>10. TypeOK'
    BY <2>2, <2>5, <2>6, <2>8, <2>9 DEF StoreInv, TypeOK, time, proc
  <2>11. StoredInv'
    BY <2>5, <2>6, <2>8 DEF StoredInv
  <2>12. PhaseInv'
    BY <2>2, <2>4 DEF StoreInv, PhaseInv, InCallback, proc
  <2>13. OnceInv'
    BY <2>2, <2>4, <2>5, <2>6, OnceKept
  <2> QED
    BY <2>6, <2>10, <2>11, <2>12, <2>13 DEF StoreInv
<1>3. ASSUME NEW j \in Jobs, AddJob(th, j)
      PROVE  CronInv'
  <2>1. Insert(th, j) /\ j \notin used \cup {Daily}
    BY <1>3 DEF AddJob
  <2>2. UNCHANGED <<past, running, hb, turn, turns, hand, runs, phase, starts>>
    BY <1>3 DEF AddJob, proc
  <2>3. \A k \in DOMAIN jobs : jobs[k].id # j
    BY <2>1, CronAssumption DEF StoreInv, StoredInv, Listed
  <2>4. ops' \in [Threads -> Nat]
    BY <1>0, <1>3 DEF AddJob, UsesTool
  <2> QED
    BY <1>0, <2>1, <2>2, <2>3, <2>4, InsertStep
<1>4. ASSUME NEW j \in Jobs, RemoveJob(th, j)
      PROVE  CronInv'
  <2>1. Erase(th, j)
    BY <1>4 DEF RemoveJob
  <2>2. UNCHANGED <<capacity, time, running, hb, turn, turns, hand, runs, phase, starts>>
    BY <1>4 DEF RemoveJob, proc
  <2>4. ops' \in [Threads -> Nat]
    BY <1>0, <1>4 DEF RemoveJob, UsesTool
  <2> QED
    BY <1>0, <2>1, <2>2, <2>4, EraseStep
<1>5. ASSUME NEW j \in Jobs, RunJob(th, j)
      PROVE  CronInv'
  <2>1. /\ UNCHANGED <<store, time, proc, hb, round, turn, turns, saveVars, hist>>
        /\ hand' = [hand EXCEPT ![th] = j] /\ ops' = [ops EXCEPT ![th] = @ + 1]
    BY <1>5 DEF RunJob, UsesTool
  <2>2. hand' \in [Threads -> Jobs \cup {None}] /\ ops' \in [Threads -> Nat]
    BY <2>1 DEF StoreInv, TypeOK
  <2>3. TypeOK'
    BY <2>1, <2>2 DEF StoreInv, TypeOK, store, time, proc, saveVars, hist
  <2>4. StoredInv' /\ PhaseInv' /\ PastInv' /\ OnceInv'
    BY <2>1 DEF StoreInv, StoredInv, PhaseInv, PastInv, OnceInv, InCallback, OneTime, store, time,
                proc, saveVars, hist
  <2> QED
    BY <2>3, <2>4 DEF StoreInv
<1>6. ASSUME NEW j \in Jobs, NEW enabled \in BOOLEAN, EnableJob(th, j, enabled)
      PROVE  CronInv'
  <2> DEFINE e == [id |-> j, enabled |-> enabled,
                   next |-> IF enabled THEN ComputeNextRun(j) ELSE "none"]
             js == [k \in DOMAIN jobs |-> IF jobs[k].id # j THEN jobs[k] ELSE e]
             f == [k \in DOMAIN jobs |-> k]
             n == Len(jobs)
  <2>1. /\ jobs' = js /\ BeginSave(th, js) /\ ops' = [ops EXCEPT ![th] = @ + 1]
        /\ UNCHANGED <<capacity, time, proc, hb, round, turn, turns, hand, hist>>
    BY <1>6 DEF EnableJob, UsesTool
  <2>2. e \in Entry /\ e.id = j /\ e.next \in {"none", "later"}
        /\ (j \in OneTime /\ e.next = "later" => j \notin past)
    BY DEF Entry, ComputeNextRun, OneTime
  <2>3. jobs \in Seq(Entry) /\ n \in Nat /\ DOMAIN jobs = 1 .. n
    BY DEF StoreInv, TypeOK
  <2> HIDE DEF e
  <2>4. DOMAIN js = DOMAIN jobs /\ \A k \in DOMAIN jobs : js[k].id = jobs[k].id
    BY <2>2
  <2>5. js \in Seq(Entry) /\ Len(js) = Len(jobs)
    <3>1. js \in [1 .. n -> Entry]
      BY <2>2, <2>3
    <3> HIDE DEF js
    <3> QED
      BY <2>3, <3>1, SeqDef, LenProperties
  <2>6. From(js, f)
    BY <2>4, <2>5 DEF From
  <2>7. Rested(js, f)
    BY <2>2 DEF Rested
  <2> HIDE DEF js, f, n
  <2>8. /\ past' = past /\ used' = used /\ runs' = runs /\ capacity' = capacity
        /\ disturbed' = disturbed
    BY <2>1 DEF time, hist
  <2>9. From(jobs', f) /\ Rested(jobs', f)
    BY <2>1, <2>6, <2>7, Zenon
  <2>10. /\ jobs' \in Seq(Entry) /\ Len(jobs') <= capacity
         /\ \A k, l \in DOMAIN jobs' : jobs'[k].id = jobs'[l].id => k = l \/ jobs'[k].id = Nameless
         /\ Listed(jobs', used')
         /\ DueBefore(jobs') /\ PastInv'
    BY <2>8, <2>9, ChangeFacts
  <2>11. /\ saving' \in [Threads -> BOOLEAN] /\ data' \in [Threads -> Seq(Saved)]
         /\ file' = Unreadable
         /\ \A other \in Threads : Listed(data'[other], used)
    <3>1. Listed(js, used)
      BY <2>1, <2>8, <2>10
    <3> QED
      BY <1>0, <2>1, <2>5, <3>1, SaveFacts
  <2>12. ops' \in [Threads -> Nat]
    BY <2>1, <1>0
  <2>13. TypeOK'
    BY <2>1, <2>8, <2>10, <2>11, <2>12 DEF StoreInv, TypeOK, time, proc
  <2>14. StoredInv'
    BY <2>8, <2>10, <2>11 DEF StoredInv
  <2>15. PhaseInv'
    BY <2>1, <2>4 DEF StoreInv, PhaseInv, InCallback, proc
  <2>16. OnceInv'
    BY <2>1, <2>4, <2>8, <2>10, OnceKept
  <2> QED
    BY <2>10, <2>13, <2>14, <2>15, <2>16 DEF StoreInv
<1> QED
  BY <1>1, <1>2, <1>3, <1>4, <1>5, <1>6 DEF ThreadNext

----------------------------------------------------------------------------
(* The heartbeat thread *)

\* Steps that leave the store, the files and the history alone.
LEMMA QuietStep ==
  ASSUME CronInv, UNCHANGED <<store, time, saveVars, hist>>,
         phase' \in Phases, starts' \in Nat, running' \in BOOLEAN, hb' \in HbPlaces,
         turn' \in [Threads -> Agents \cup {None}], ops' \in [Threads -> Nat], turns' \in Nat,
         hand' \in [Threads -> Jobs \cup {None}], round' \in Round,
         phase' = "dailyAdd" => phase = "dailyAdd" \/ \A k \in DOMAIN jobs : jobs[k].id # Daily,
         hb' # "off" => phase' \notin {"begin", "thread", "down"},
         round'.dangling => round.dangling,
         InCallback' => \/ round'.job = Nameless
                        \/ InCallback /\ round'.job = round.job /\ round'.at = round.at,
         InCallback => InCallback' /\ round'.job = round.job
  PROVE  CronInv'
<1> USE DEF CronInv
<1>1. UNCHANGED <<jobs, capacity, past, used, saving, data, file, runs, disturbed>>
  BY DEF store, time, saveVars, hist
<1>2. TypeOK'
  BY <1>1 DEF StoreInv, TypeOK, Phases, HbPlaces, Round
<1>3. StoredInv'
  BY <1>1 DEF StoreInv, StoredInv
<1>4. PhaseInv'
  <2>1. phase' = "dailyAdd" => \A k \in DOMAIN jobs' : jobs'[k].id # Daily
    BY <1>1 DEF StoreInv, PhaseInv
  <2>2. InCallback' => round'.job # None
    BY CronAssumption DEF StoreInv, PhaseInv
  <2> QED
    BY <2>1, <2>2 DEF PhaseInv
<1>5. PastInv'
  BY <1>1 DEF PastInv, OneTime
<1>6. OnceInv'
  <2> SUFFICES ASSUME disturbed = "no"
               PROVE  /\ ~round'.dangling
                      /\ InCallback' /\ round'.job \in Jobs =>
                           round'.at \in DOMAIN jobs /\ jobs[round'.at].id = round'.job
                      /\ \A j \in OneTime :
                           /\ runs[j] <= 1
                           /\ \A k \in DOMAIN jobs : jobs[k].id = j /\ jobs[k].next = "due" =>
                                runs[j] = 0 \/ (InCallback' /\ round'.job = j)
    BY <1>1 DEF OnceInv, OneTime
  <2>1. Nameless \notin Jobs
    BY CronAssumption
  <2> QED
    BY <2>1 DEF OnceInv
<1> QED
  BY <1>2, <1>3, <1>4, <1>5, <1>6 DEF StoreInv

\* Saves of a vector that gives nothing a run, while no callback runs.
LEMMA SaveStep ==
  ASSUME CronInv, NEW th \in Threads, NEW f, From(jobs', f), Rested(jobs', f), BeginSave(th, jobs'),
         UNCHANGED <<capacity, time, starts, turnVars, hist>>,
         phase' \in Phases, running' \in BOOLEAN, hb' \in HbPlaces, round' \in Round,
         phase' = "dailyAdd" => phase = "dailyAdd",
         hb' # "off" => phase' \notin {"begin", "thread", "down"},
         round'.dangling => round.dangling, ~InCallback, ~InCallback'
  PROVE  CronInv'
<1> USE DEF CronInv
<1>1. UNCHANGED <<past, used, runs, disturbed, turn, ops, turns, hand>>
  BY DEF time, turnVars, hist
<1>2. /\ jobs' \in Seq(Entry) /\ Len(jobs') <= capacity
      /\ \A k, l \in DOMAIN jobs' : jobs'[k].id = jobs'[l].id => k = l \/ jobs'[k].id = Nameless
      /\ Listed(jobs', used')
      /\ \A i \in Jobs : (\A k \in DOMAIN jobs : jobs[k].id # i) =>
           \A k \in DOMAIN jobs' : jobs'[k].id # i
      /\ DueBefore(jobs') /\ PastInv'
  BY <1>1, ChangeFacts
<1>3. used \subseteq Jobs
  BY DEF StoreInv, TypeOK
<1>4. PICK js : js = jobs'
  OBVIOUS
<1>5. /\ saving' \in [Threads -> BOOLEAN] /\ data' \in [Threads -> Seq(Saved)]
      /\ file' = Unreadable
      /\ \A other \in Threads : Listed(data'[other], used)
  <2>1. js \in Seq(Entry) /\ Listed(js, used) /\ BeginSave(th, js)
    BY <1>1, <1>2, <1>4
  <2> QED
    BY <1>3, <2>1, SaveFacts
<1>6. TypeOK'
  BY <1>1, <1>2, <1>5 DEF StoreInv, TypeOK, Phases, HbPlaces, Round
<1>7. StoredInv'
  BY <1>1, <1>2, <1>5 DEF StoredInv
<1>8. PhaseInv'
  <2>1. \A k \in DOMAIN jobs' : \E l \in DOMAIN jobs : jobs'[k].id \in {Nameless, jobs[l].id}
    BY DEF From
  <2>2. Daily # Nameless
    BY CronAssumption
  <2> QED
    BY <2>1, <2>2 DEF StoreInv, PhaseInv
<1>9. OnceInv'
  BY <1>1, <1>2, OnceOutside
<1> QED
  BY <1>2, <1>6, <1>7, <1>8, <1>9 DEF StoreInv

\* The loop finds a due job: if it has been run, it is not a one-time job, or the loop
\* was disturbed.
LEMMA NextDueStep == ASSUME CronInv, NextDue PROVE CronInv'
<1> USE DEF CronInv
<1>1. PICK k \in DueAt :
        /\ HbStep("scan", "call")
        /\ round' = [round EXCEPT !.at = k, !.job = jobs[k].id, !.changed = TRUE]
        /\ Counted(jobs[k].id)
  BY DEF NextDue
<1>2. /\ UNCHANGED <<jobs, capacity, past, used, phase, running, starts, turn, ops, turns, hand,
                     saving, data, file, disturbed>>
      /\ ~round.dangling
  BY DEF NextDue, store, time, proc, turnVars, saveVars
<1> DEFINE j == jobs[k].id
<1>3. k \in DOMAIN jobs /\ jobs[k].next = "due"
  BY DEF DueAt
<1>4. jobs \in Seq(Entry) /\ DOMAIN jobs = 1 .. Len(jobs) /\ Len(jobs) \in Nat
  BY DEF StoreInv, TypeOK
<1>5. j \in Jobs \cup {Nameless} /\ k \in Nat
  <2>1. jobs[k] \in Entry
    BY <1>3, <1>4
  <2> QED
    BY <1>3, <1>4, <2>1 DEF Entry
<1>6. /\ round'.at = k /\ round'.job = j /\ round'.dangling = round.dangling
      /\ round' \in Round
  BY <1>1, <1>5 DEF StoreInv, TypeOK, Round
<1>7. runs' = IF Kind[j] = "repeat" THEN runs ELSE [runs EXCEPT ![j] = @ + 1]
  BY <1>1 DEF Counted
<1>8. runs \in [Jobs -> Nat]
  BY DEF StoreInv, TypeOK
<1>9. ~InCallback /\ InCallback' /\ hb' = "call" /\ hb = "scan"
  BY <1>1 DEF HbStep, InCallback
<1> HIDE DEF j
<1>10. /\ runs' \in [Jobs -> Nat]
       /\ \A i \in OneTime : runs'[i] = IF i = j THEN runs[i] + 1 ELSE runs[i]
  <2>1. CASE j \in OneTime
    BY <1>7, <1>8, <2>1 DEF OneTime
  <2>2. CASE j \notin OneTime
    <3>1. runs' = runs
      <4>1. CASE j \in Jobs
        BY <1>7, <2>2, <4>1 DEF OneTime
      <4>2. CASE j \notin Jobs
        <5>1. [runs EXCEPT ![j] = @ + 1] = runs
          BY <1>8, <4>2
        <5> QED
          BY <1>7, <5>1
      <4> QED
        BY <4>1, <4>2
    <3> QED
      BY <1>8, <2>2, <3>1
  <2> QED
    BY <2>1, <2>2
<1>11. TypeOK'
  BY <1>2, <1>6, <1>9, <1>10 DEF StoreInv, TypeOK, Round
<1>12. StoredInv'
  BY <1>2 DEF StoreInv, StoredInv
<1>13. PhaseInv'
  <2>1. j # None
    BY <1>5, CronAssumption
  <2> QED
    BY <1>2, <1>6, <1>9, <2>1 DEF StoreInv, PhaseInv
<1>14. PastInv'
  <2>1. j \in OneTime => j \in past
    BY <1>3 DEF PastInv, j
  <2>2. \A i \in OneTime : runs'[i] > 0 => i \in past
    BY <1>8, <1>10, <2>1 DEF PastInv
  <2> QED
    BY <1>2, <2>2 DEF PastInv, OneTime
<1>15. OnceInv'
  <2> SUFFICES ASSUME disturbed = "no"
               PROVE  /\ ~round'.dangling
                      /\ round'.at \in DOMAIN jobs /\ jobs[round'.at].id = round'.job
                      /\ \A i \in OneTime :
                           /\ runs'[i] <= 1
                           /\ \A l \in DOMAIN jobs : jobs[l].id = i /\ jobs[l].next = "due" =>
                                runs'[i] = 0 \/ round'.job = i
    BY <1>2, <1>9 DEF OnceInv, OneTime
  <2>1. ~round'.dangling
    BY <1>2, <1>6
  <2>2. round'.at \in DOMAIN jobs /\ jobs[round'.at].id = round'.job
    BY <1>3, <1>6 DEF j
  <2>3. ASSUME NEW i \in OneTime
        PROVE  /\ runs'[i] <= 1
               /\ \A l \in DOMAIN jobs : jobs[l].id = i /\ jobs[l].next = "due" =>
                    runs'[i] = 0 \/ round'.job = i
    <3>1. CASE i = j
      <4>1. runs[i] = 0
        BY <1>3, <1>9, <3>1 DEF OnceInv, j
      <4> QED
        BY <1>6, <1>10, <3>1, <4>1
    <3>2. CASE i # j
      <4>1. runs'[i] = runs[i]
        BY <1>10, <3>2
      <4> QED
        BY <1>9, <4>1 DEF OnceInv
    <3> QED
      BY <3>1, <3>2
  <2> QED
    BY <2>1, <2>2, <2>3
<1> QED
  BY <1>11, <1>12, <1>13, <1>14, <1>15 DEF StoreInv

\* After the callback a one-time job is no longer due: it has been looked up by its id,
\* or the reference still leads to it.
LEMMA ExecutedStep == ASSUME CronInv, Executed PROVE CronInv'
<1> USE DEF CronInv
<1> DEFINE j == round.job
           base == AfterRun(j)
           id == [k \in DOMAIN jobs |-> k]
           toRemove == IF ~Has(j) THEN {TRUE}
                       ELSE IF j = Nameless THEN BOOLEAN ELSE {Kind[j] = "at"}
           js == [base EXCEPT ![round.at].enabled = FALSE, ![round.at].id = Nameless]
           hit == ~round.dangling /\ round.at \in DOMAIN base
<1>1. PICK remove \in toRemove : jobs' = IF remove /\ hit THEN js ELSE base
  BY Zenon DEF Executed
<1>2. /\ hb = "called" /\ hb' = "scan"
      /\ round' = [round EXCEPT !.at = @ + 1, !.job = None]
      /\ UNCHANGED <<capacity, past, used, phase, running, starts, turn, ops, turns, hand,
                     saving, data, file, runs, disturbed>>
  BY DEF Executed, HbStep, time, proc, turnVars, saveVars, hist
<1>3. j \in Jobs \cup {Nameless} /\ InCallback /\ ~InCallback'
  BY <1>2 DEF InCallback, StoreInv, TypeOK, PhaseInv
<1>4. /\ round'.dangling = round.dangling
      /\ round' \in Round
  <2>1. round \in Round
    BY DEF StoreInv, TypeOK, Round
  <2> HIDE DEF j, base, js, hit, toRemove, id
  <2>2. round' = [round EXCEPT !.at = round.at + 1, !.job = None]
    BY <1>2
  <2>3. round.at + 1 \in Nat
    BY <2>1 DEF Round
  <2>4. PICK n \in Nat : n = round.at + 1
    BY <2>3
  <2>5. round' = [round EXCEPT !.at = n, !.job = None]
    BY <2>2, <2>4
  <2>6. /\ [round EXCEPT !.at = n, !.job = None] \in Round
        /\ [round EXCEPT !.at = n, !.job = None].dangling = round.dangling
    BY <2>1 DEF Round
  <2> QED
    BY <2>5, <2>6, Zenon
<1> HIDE DEF j
<1>5. /\ From(base, id) /\ Rested(base, id) /\ DOMAIN base = DOMAIN jobs
      /\ \A k \in DOMAIN jobs : base[k].id = jobs[k].id
      /\ j \in Jobs /\ Kind[j] = "atKept" =>
           \A k \in DOMAIN jobs : jobs[k].id = j => base[k].next = "none"
  BY <1>3, AfterRunFacts
<1> HIDE DEF base
<1>6. jobs \in Seq(Entry) /\ DOMAIN jobs = 1 .. Len(jobs) /\ Len(jobs) \in Nat
  BY DEF StoreInv, TypeOK
<1>7. base \in Seq(Entry) /\ DOMAIN base = 1 .. Len(base) /\ Len(base) \in Nat
      /\ \A k \in DOMAIN base : base[k] \in Entry
  BY <1>5 DEF From
<1>8. ASSUME hit
      PROVE  /\ js \in Seq(Entry) /\ DOMAIN js = DOMAIN base /\ Len(js) = Len(base)
             /\ js[round.at].id = Nameless
             /\ \A k \in DOMAIN base : k # round.at => js[k] = base[k]
  <2>1. DOMAIN js = DOMAIN base /\ \A k \in DOMAIN base : k # round.at => js[k] = base[k]
    OBVIOUS
  <2>2. js[round.at] = [base[round.at] EXCEPT !.enabled = FALSE, !.id = Nameless]
    BY <1>8
  <2>3. js[round.at] \in Entry /\ js[round.at].id = Nameless
    <3>1. base[round.at] \in Entry
      BY <1>7, <1>8
    <3>2. \A x \in Entry : /\ [x EXCEPT !.enabled = FALSE, !.id = Nameless] \in Entry
                           /\ [x EXCEPT !.enabled = FALSE, !.id = Nameless].id = Nameless
      BY DEF Entry
    <3> QED
      BY <2>2, <3>1, <3>2
  <2>4. js = [k \in 1 .. Len(base) |-> js[k]]
    BY <1>7, <2>1
  <2> HIDE DEF js
  <2>5. \A k \in 1 .. Len(base) : js[k] \in Entry
    BY <1>7, <2>1, <2>3
  <2>6. js \in Seq(Entry) /\ Len(js) = Len(base)
    BY <1>7, <2>4, <2>5, SeqDef, LenProperties
  <2> QED
    BY <2>1, <2>3, <2>6
<1> HIDE DEF js
<1>9. ASSUME hit
      PROVE  From(js, id) /\ Rested(js, id)
  <2>1. From(js, id)
    BY <1>5, <1>8, <1>9 DEF From
  <2>2. Rested(js, id)
    BY <1>5, <1>8, <1>9 DEF Rested
  <2> QED
    BY <2>1, <2>2
<1>10. From(jobs', id) /\ Rested(jobs', id)
  <2>1. CASE remove /\ hit
    BY <1>1, <1>9, <2>1, Zenon
  <2>2. CASE ~(remove /\ hit)
    BY <1>1, <1>5, <2>2, Zenon
  <2> QED
    BY <2>1, <2>2
<1>11. /\ jobs' \in Seq(Entry) /\ Len(jobs') <= capacity
       /\ \A k, l \in DOMAIN jobs' : jobs'[k].id = jobs'[l].id => k = l \/ jobs'[k].id = Nameless
       /\ Listed(jobs', used')
       /\ \A i \in Jobs : (\A k \in DOMAIN jobs : jobs[k].id # i) =>
            \A k \in DOMAIN jobs' : jobs'[k].id # i
       /\ DueBefore(jobs') /\ PastInv'
  BY <1>2, <1>10, ChangeFacts
<1>12. TypeOK'
  BY <1>2, <1>4, <1>11 DEF StoreInv, TypeOK, Round
<1>13. StoredInv'
  BY <1>2, <1>11 DEF StoreInv, StoredInv
<1>14. PhaseInv'
  <2>1. \A k \in DOMAIN jobs' : \E l \in DOMAIN jobs :
          jobs'[k].id \in {Nameless, jobs[l].id}
    BY <1>10 DEF From
  <2>2. Daily # Nameless
    BY CronAssumption
  <2> QED
    BY <1>2, <1>3, <2>1, <2>2 DEF StoreInv, PhaseInv
<1>15. ASSUME disturbed = "no", j \in OneTime, NEW k \in DOMAIN jobs', jobs'[k].id = j,
              jobs'[k].next = "due"
       PROVE  FALSE
  <2>1. j \in Jobs /\ j # Nameless /\ Kind[j] \in {"at", "atKept"}
    BY <1>15, CronAssumption DEF OneTime
  <2>2. ~round.dangling /\ round.at \in DOMAIN jobs /\ jobs[round.at].id = j
    BY <1>3, <1>15, <2>1 DEF OnceInv, j
  <2>3. hit /\ Has(j)
    BY <1>5, <2>2 DEF Has
  <2>4. CASE Kind[j] = "at"
    <3>1. remove = TRUE
      BY <2>1, <2>3, <2>4
    <3>2. jobs' = js
      BY <1>1, <2>3, <3>1
    <3>3. k # round.at /\ js[k] = base[k] /\ base[k].id = jobs[k].id /\ k \in DOMAIN jobs
      BY <1>5, <1>8, <1>15, <2>1, <2>3, <3>2
    <3>4. jobs[k].id = j /\ jobs[round.at].id = j
      BY <1>15, <2>2, <3>2, <3>3
    <3> QED
      BY <2>1, <2>2, <3>3, <3>4 DEF StoreInv, TypeOK
  <2>5. CASE Kind[j] = "atKept"
    <3>1. remove = FALSE
      BY <2>1, <2>3, <2>5
    <3>2. jobs' = base
      BY <1>1, <3>1
    <3> QED
      BY <1>5, <1>15, <2>1, <2>5, <3>2
  <2> QED
    BY <2>1, <2>4, <2>5
<1>16. OnceInv'
  <2> SUFFICES ASSUME disturbed = "no"
               PROVE  /\ ~round'.dangling
                      /\ \A i \in OneTime :
                           /\ runs[i] <= 1
                           /\ \A k \in DOMAIN jobs' : jobs'[k].id = i /\ jobs'[k].next = "due" =>
                                runs[i] = 0
    BY <1>2, <1>3 DEF OnceInv, OneTime
  <2>1. ~round'.dangling
    BY <1>4 DEF OnceInv
  <2>2. ASSUME NEW i \in OneTime, NEW k \in DOMAIN jobs', jobs'[k].id = i, jobs'[k].next = "due"
        PROVE  runs[i] = 0
    <3>1. i # j
      BY <1>15, <2>2
    <3>2. PICK l \in DOMAIN jobs : jobs[l].id = i /\ jobs[l].next = "due"
      BY <1>11, <2>2 DEF DueBefore
    <3> QED
      BY <3>1, <3>2 DEF OnceInv, j
  <2>3. \A i \in OneTime : runs[i] <= 1
    BY DEF OnceInv
  <2> QED
    BY <2>1, <2>2, <2>3
<1> QED
  BY <1>11, <1>12, <1>13, <1>14, <1>16 DEF StoreInv

\* The types, as the steps need them.
LEMMA TypeFacts ==
  ASSUME CronInv
  PROVE  /\ phase \in Phases /\ starts \in Nat /\ running \in BOOLEAN /\ hb \in HbPlaces
         /\ turn \in [Threads -> Agents \cup {None}] /\ ops \in [Threads -> Nat] /\ turns \in Nat
         /\ hand \in [Threads -> Jobs \cup {None}] /\ round \in Round
         /\ hb # "off" => phase \notin {"begin", "thread", "down"}
         /\ IdleRound \in Round /\ ~IdleRound.dangling /\ Len(jobs) \in Nat
         /\ jobs \in Seq(Entry) /\ used \subseteq Jobs
  BY DEF CronInv, StoreInv, TypeOK, PhaseInv, Phases, HbPlaces, Round, IdleRound

LEMMA HeartbeatStep ==
  ASSUME CronInv, HeartbeatNext
  PROVE  CronInv'
<1>0. /\ phase \in Phases /\ starts \in Nat /\ running \in BOOLEAN /\ hb \in HbPlaces
      /\ turn \in [Threads -> Agents \cup {None}] /\ ops \in [Threads -> Nat] /\ turns \in Nat
      /\ hand \in [Threads -> Jobs \cup {None}] /\ round \in Round
      /\ hb # "off" => phase \notin {"begin", "thread", "down"}
      /\ IdleRound \in Round /\ ~IdleRound.dangling /\ Len(jobs) \in Nat
  BY TypeFacts
<1>a. DefaultAgent \in Agents /\ \A j \in Jobs : AgentOf[j] \in Agents \cup {None}
  BY CronAssumption
<1>1. CASE Tick
  <2>1. /\ hb = "sleep" /\ hb' \in {"scan", "exited"} /\ round' = [IdleRound EXCEPT !.end = Len(jobs)]
        /\ UNCHANGED <<store, time, saveVars, hist, phase, starts, running, turn, ops, turns, hand>>
    BY <1>1 DEF Tick, HbStep, proc, turnVars
  <2>2. round' \in Round /\ ~round'.dangling
    BY <1>0, <2>1 DEF Round
  <2>3. ~InCallback /\ ~InCallback'
    BY <2>1 DEF InCallback
  <2>4. hb' \in HbPlaces /\ phase' \notin {"begin", "thread", "down"}
    BY <1>0, <2>1 DEF HbPlaces
  <2> QED
    BY <1>0, <2>1, <2>2, <2>3, <2>4, QuietStep
<1>2. CASE NextDue
  BY <1>2, NextDueStep
<1>3. CASE NextStale
  <2>1. PICK k \in 1 .. round.end :
          round' = [round EXCEPT !.at = k, !.job = Nameless, !.changed = TRUE]
    BY <1>3 DEF NextStale
  <2>2. /\ hb = "scan" /\ hb' = "call"
        /\ UNCHANGED <<store, time, saveVars, hist, phase, starts, running, turn, ops, turns, hand>>
    BY <1>3 DEF NextStale, HbStep, proc, turnVars
  <2>3. round' \in Round /\ round'.dangling = round.dangling /\ round'.job = Nameless
    <3>1. k \in Nat
      BY <1>0 DEF Round
    <3> QED
      BY <1>0, <2>1, <3>1 DEF Round
  <2>4. hb' \in HbPlaces /\ phase' \notin {"begin", "thread", "down"} /\ ~InCallback
    BY <1>0, <2>2 DEF HbPlaces, InCallback
  <2> QED
    BY <1>0, <2>2, <2>3, <2>4, QuietStep
<1>4. CASE Deliver
  <2>1. /\ hb = "call" /\ hb' = "called" /\ round' = round
        /\ UNCHANGED <<store, time, saveVars, hist, phase, starts, running, turn, ops, turns, hand>>
    BY <1>4 DEF Deliver, HbStep, proc, turnVars
  <2>2. hb' \in HbPlaces /\ phase' \notin {"begin", "thread", "down"} /\ InCallback
    BY <1>0, <2>1 DEF HbPlaces, InCallback
  <2>3. InCallback'
    BY <2>1 DEF InCallback
  <2> QED
    BY <1>0, <2>1, <2>2, <2>3, QuietStep
<1>5. CASE CallbackEnters
  <2>1. /\ hb = "call" /\ hb' = "turn" /\ round' = round
        /\ ops' = [ops EXCEPT !["heartbeat"] = 0]
        /\ UNCHANGED <<store, time, saveVars, hist, phase, starts, running, turns, hand>>
    BY <1>5 DEF CallbackEnters, HbStep, proc
  <2>2. PICK a \in RunBy(round.job) \ {None} : turn' = [turn EXCEPT !["heartbeat"] = a]
    BY <1>5 DEF CallbackEnters
  <2>3. hb' \in HbPlaces /\ phase' \notin {"begin", "thread", "down"} /\ InCallback
    BY <1>0, <2>1 DEF HbPlaces, InCallback
  <2>4. InCallback'
    BY <2>1 DEF InCallback
  <2>5. a \in Agents
    <3>1. round.job \in Jobs \cup {Nameless}
      BY <1>0, <2>3 DEF CronInv, StoreInv, PhaseInv, Round
    <3> QED
      BY <1>a, <2>2, <3>1 DEF RunBy
  <2>6. turn' \in [Threads -> Agents \cup {None}] /\ ops' \in [Threads -> Nat]
    BY <1>0, <2>1, <2>2, <2>5
  <2> QED
    BY <1>0, <2>1, <2>3, <2>4, <2>6, QuietStep
<1>6. CASE CallbackLeaves
  <2>1. /\ hb = "turn" /\ hb' = "called" /\ round' = round
        /\ turn' = [turn EXCEPT !["heartbeat"] = None]
        /\ UNCHANGED <<store, time, saveVars, hist, phase, starts, running, ops, turns, hand>>
    BY <1>6 DEF CallbackLeaves, HbStep, proc
  <2>2. hb' \in HbPlaces /\ phase' \notin {"begin", "thread", "down"} /\ InCallback
    BY <1>0, <2>1 DEF HbPlaces, InCallback
  <2>3. InCallback'
    BY <2>1 DEF InCallback
  <2>4. turn' \in [Threads -> Agents \cup {None}]
    BY <1>0, <2>1
  <2> QED
    BY <1>0, <2>1, <2>2, <2>3, <2>4, QuietStep
<1>7. CASE Executed
  BY <1>7, ExecutedStep
<1>8. CASE RoundEnds
  <2>1. /\ hb = "scan" /\ hb' = "beat" /\ round' = IdleRound
        /\ UNCHANGED <<capacity, time, phase, starts, running, turnVars, hist>>
    BY <1>8 DEF RoundEnds, HbStep, proc
  <2>2. hb' \in HbPlaces /\ phase' \notin {"begin", "thread", "down"} /\ ~InCallback /\ ~InCallback'
    BY <1>0, <2>1 DEF HbPlaces, InCallback
  <2>3. CASE round.changed
    <3> DEFINE D == {k \in DOMAIN jobs : jobs[k].id # Nameless}
    <3>1. jobs' = EntriesAt(jobs, D) /\ BeginSave("heartbeat", jobs')
      BY <1>8, <2>3 DEF RoundEnds
    <3> HIDE DEF D
    <3>2. \E f : /\ From(EntriesAt(jobs, D), f)
                 /\ \A k \in DOMAIN EntriesAt(jobs, D) :
                      f[k] \in D /\ EntriesAt(jobs, D)[k] = jobs[f[k]]
      BY ErasedFacts DEF CronInv
    <3>3. PICK f : /\ From(jobs', f)
                   /\ \A k \in DOMAIN jobs' : f[k] \in D /\ jobs'[k] = jobs[f[k]]
      BY <3>1, <3>2, Zenon
    <3>4. Rested(jobs', f)
      BY <3>3 DEF Rested
    <3>5. "heartbeat" \in Threads
      BY DEF Threads
    <3> QED
      BY <1>0, <2>1, <2>2, <3>1, <3>3, <3>4, <3>5, SaveStep
  <2>4. CASE ~round.changed
    <3>1. UNCHANGED <<store, saveVars, turn, ops, turns, hand>>
      BY <1>8, <2>1, <2>4 DEF RoundEnds, store, turnVars
    <3> QED
      BY <1>0, <2>1, <2>2, <3>1, QuietStep
  <2> QED
    BY <2>3, <2>4
<1>9. CASE BeatSkipped
  <2>1. /\ hb = "beat" /\ hb' = "sleep" /\ round' = round
        /\ UNCHANGED <<store, time, saveVars, hist, phase, starts, running, turn, ops, turns, hand>>
    BY <1>9 DEF BeatSkipped, HbStep, proc, turnVars
  <2>2. /\ hb' \in HbPlaces /\ phase' \notin {"begin", "thread", "down"}
        /\ ~InCallback /\ ~InCallback'
    BY <1>0, <2>1 DEF HbPlaces, InCallback
  <2> QED
    BY <1>0, <2>1, <2>2, QuietStep
<1>10. CASE BeatEnters
  <2>1. /\ hb = "beat" /\ hb' = "beatTurn" /\ round' = round
        /\ turn' = [turn EXCEPT !["heartbeat"] = DefaultAgent]
        /\ ops' = [ops EXCEPT !["heartbeat"] = 0]
        /\ UNCHANGED <<store, time, saveVars, hist, phase, starts, running, turns, hand>>
    BY <1>10 DEF BeatEnters, HbStep, proc
  <2>2. /\ hb' \in HbPlaces /\ phase' \notin {"begin", "thread", "down"}
        /\ ~InCallback /\ ~InCallback'
    BY <1>0, <2>1 DEF HbPlaces, InCallback
  <2>3. turn' \in [Threads -> Agents \cup {None}] /\ ops' \in [Threads -> Nat]
    BY <1>0, <1>a, <2>1
  <2> QED
    BY <1>0, <2>1, <2>2, <2>3, QuietStep
<1>11. CASE BeatLeaves
  <2>1. /\ hb = "beatTurn" /\ hb' = "sleep" /\ round' = round
        /\ turn' = [turn EXCEPT !["heartbeat"] = None]
        /\ UNCHANGED <<store, time, saveVars, hist, phase, starts, running, ops, turns, hand>>
    BY <1>11 DEF BeatLeaves, HbStep, proc
  <2>2. /\ hb' \in HbPlaces /\ phase' \notin {"begin", "thread", "down"}
        /\ ~InCallback /\ ~InCallback'
    BY <1>0, <2>1 DEF HbPlaces, InCallback
  <2>3. turn' \in [Threads -> Agents \cup {None}]
    BY <1>0, <2>1
  <2> QED
    BY <1>0, <2>1, <2>2, <2>3, QuietStep
<1>12. CASE ThreadNext("heartbeat")
  <2>1. "heartbeat" \in Threads
    BY DEF Threads
  <2> QED
    BY <1>12, <2>1, ToolStep
<1> QED
  BY <1>1, <1>2, <1>3, <1>4, <1>5, <1>6, <1>7, <1>8, <1>9, <1>10, <1>11, <1>12 DEF HeartbeatNext


----------------------------------------------------------------------------
(* The main thread and the process *)

LEMMA LoadedFacts ==
  ASSUME NEW n \in Nat
  PROVE  LoadedCapacity(n) \in Nat /\ n <= LoadedCapacity(n)
<1> DEFINE Body(g) == [k \in 0 .. n |-> IF k = 0 THEN 0 ELSE Grown(g[k - 1], k)]
           after == CHOOSE g : g = Body(g)
           G == [p \in (1 .. n) \X Nat |-> Grown(p[2], p[1])]
<1>1. LoadedCapacity(n) = after[n]
  BY DEF LoadedCapacity
<1>2. \A k \in 1 .. n : \A c \in Nat :
        /\ G[<<k, c>>] = Grown(c, k) /\ Grown(c, k) \in Nat
        /\ k - 1 <= c => k <= Grown(c, k)
  BY DEF Grown
<1>3. StepsStayIn(Nat, n, G)
  BY <1>2 DEF StepsStayIn
<1> HIDE DEF G, Body, after
<1>4. \E g \in [0 .. n -> Nat] : FollowsSteps(g, 0, n, G)
  BY <1>3, Recursion
<1>5. PICK g \in [0 .. n -> Nat] : g[0] = 0 /\ \A k \in 1 .. n : g[k] = G[<<k, g[k - 1]>>]
  BY <1>4 DEF FollowsSteps
<1>6. \A k \in 1 .. n : k - 1 \in 0 .. n /\ g[k - 1] \in Nat /\ g[k] = Grown(g[k - 1], k)
  <2> TAKE k \in 1 .. n
  <2>1. k - 1 \in 0 .. n
    OBVIOUS
  <2>2. g[k - 1] \in Nat
    BY <1>5, <2>1
  <2> QED
    BY <1>2, <1>5, <2>1, <2>2
<1>7. g = Body(g)
  <2>1. \A k \in 0 .. n : g[k] = IF k = 0 THEN 0 ELSE Grown(g[k - 1], k)
    <3> TAKE k \in 0 .. n
    <3>1. k = 0 \/ k \in 1 .. n
      OBVIOUS
    <3>2. \A i \in 1 .. n : i # 0
      OBVIOUS
    <3> QED
      BY <1>5, <1>6, <3>1, <3>2
  <2> QED
    BY <1>5, <2>1 DEF Body
<1>8. after = Body(after)
  BY <1>7 DEF after
<1>9. \A k \in 0 .. n : after[k] = IF k = 0 THEN 0 ELSE Grown(after[k - 1], k)
  BY <1>8 DEF Body
<1> DEFINE T == {k \in Nat : k <= n => after[k] = g[k] /\ k <= g[k]}
<1>10. 0 \in T
  BY <1>5, <1>9
<1>11. \A k \in Nat : k \in T => k + 1 \in T
  <2> TAKE k \in Nat
  <2> SUFFICES ASSUME k + 1 <= n, after[k] = g[k], k <= g[k]
               PROVE  after[k + 1] = g[k + 1] /\ k + 1 <= g[k + 1]
    OBVIOUS
  <2>1. k + 1 \in 0 .. n /\ k + 1 \in 1 .. n /\ k + 1 # 0 /\ k + 1 - 1 = k
    OBVIOUS
  <2>2. after[k + 1] = Grown(after[k], k + 1)
    BY <1>9, <2>1
  <2>3. g[k + 1] = Grown(g[k], k + 1) /\ g[k] \in Nat
    BY <1>6, <2>1
  <2>4. PICK l \in 1 .. n : l = k + 1 /\ l - 1 = k
    BY <2>1
  <2>5. PICK c \in Nat : c = g[k]
    BY <2>3
  <2>6. l <= Grown(c, l)
    BY <1>2, <2>4, <2>5
  <2> QED
    BY <2>2, <2>3, <2>4, <2>5, <2>6
<1>12. Nat \subseteq T
  <2> HIDE DEF T
  <2> QED
    BY <1>10, <1>11, Induction
<1>13. after[n] = g[n] /\ n <= g[n] /\ g[n] \in Nat
  BY <1>5, <1>12
<1> QED
  BY <1>1, <1>13

LEMMA MainThreadStep ==
  ASSUME CronInv, MainNext \/ DailyRemoved
  PROVE  CronInv'
<1>0. /\ phase \in Phases /\ starts \in Nat /\ running \in BOOLEAN /\ hb \in HbPlaces
      /\ turn \in [Threads -> Agents \cup {None}] /\ ops \in [Threads -> Nat] /\ turns \in Nat
      /\ hand \in [Threads -> Jobs \cup {None}] /\ round \in Round
      /\ hb # "off" => phase \notin {"begin", "thread", "down"}
      /\ jobs \in Seq(Entry) /\ used \subseteq Jobs
  BY TypeFacts
<1>a. "main" \in Threads
  BY DEF Threads
<1>b. hb' = hb => (InCallback' <=> InCallback)
  BY DEF InCallback
<1>c. Has(Daily) => Daily \in Jobs
  BY CronAssumption DEF Has, CronInv, StoreInv, StoredInv, Listed, TypeOK
<1>1. CASE CronStarts
  <2> DEFINE missed(e) == e.enabled /\ e.id \in Jobs /\ ComputeNextRun(e.id) = "none"
             recomputed(e) == IF e.enabled /\ e.id \in Jobs
                              THEN [e EXCEPT !.next = ComputeNextRun(e.id)] ELSE e
             D == {k \in DOMAIN jobs : ~missed(jobs[k])}
             kept == EntriesAt(jobs, D)
             js == [k \in DOMAIN kept |-> recomputed(kept[k])]
  <2>1. /\ jobs' = js /\ BeginSave("main", jobs')
        /\ phase = "begin" /\ phase' = "thread" /\ running' = TRUE
        /\ UNCHANGED <<capacity, time, starts, hb, round, turnVars, hist>>
    BY <1>1 DEF CronStarts, MainStep
  <2>2. \A e \in Entry : /\ recomputed(e) \in Entry /\ recomputed(e).id = e.id
                         /\ \/ recomputed(e).next \in {e.next, "none"}
                            \/ recomputed(e).next = "later" /\ e.id \notin past \cap OneTime
    BY DEF Entry, ComputeNextRun, OneTime
  <2> HIDE DEF recomputed, D
  <2>3. \E f : /\ From(kept, f)
               /\ \A k \in DOMAIN kept : f[k] \in D /\ kept[k] = jobs[f[k]]
    BY ErasedFacts DEF CronInv
  <2> HIDE DEF kept
  <2>4. PICK f : From(kept, f) /\ \A k \in DOMAIN kept : kept[k] = jobs[f[k]]
    BY <2>3
  <2>5. kept \in Seq(Entry) /\ DOMAIN kept = 1 .. Len(kept) /\ Len(kept) \in Nat
    BY <2>4 DEF From
  <2>6. \A k \in DOMAIN kept : kept[k] \in Entry /\ f[k] \in DOMAIN jobs
    BY <2>4, <2>5 DEF From
  <2>7. js \in Seq(Entry) /\ Len(js) = Len(kept) /\ DOMAIN js = DOMAIN kept
    <3>1. js \in [1 .. Len(kept) -> Entry]
      BY <2>2, <2>5, <2>6
    <3> HIDE DEF js
    <3> QED
      BY <2>5, <3>1, SeqDef, LenProperties
  <2>8. From(js, f)
    <3>1. \A k \in DOMAIN js : js[k].id = kept[k].id
      BY <2>2, <2>6
    <3> HIDE DEF js
    <3> QED
      BY <2>4, <2>7, <3>1 DEF From
  <2>9. Rested(js, f)
    <3>1. \A k \in DOMAIN js : \/ js[k].next \in {kept[k].next, "none"}
                               \/ js[k].next = "later" /\ js[k].id \notin past \cap OneTime
      BY <2>2, <2>6
    <3> HIDE DEF js
    <3> QED
      BY <2>4, <2>7, <3>1 DEF Rested
  <2>10. From(jobs', f) /\ Rested(jobs', f)
    BY <2>1, <2>8, <2>9, Zenon
  <2>11. hb = "off" /\ ~InCallback /\ ~InCallback' /\ phase' \in Phases
    BY <1>0, <1>b, <2>1 DEF InCallback, Phases
  <2> QED
    BY <1>0, <1>a, <2>1, <2>10, <2>11, SaveStep
<1>2. CASE HeartbeatBegins
  <2>1. /\ phase = "thread" /\ phase' = "daily" /\ hb = "off" /\ hb' = "sleep" /\ round' = round
        /\ UNCHANGED <<store, time, saveVars, hist, starts, running, turn, ops, turns, hand>>
    BY <1>2 DEF HeartbeatBegins, MainStep, HbStep, turnVars
  <2>2. ~InCallback /\ ~InCallback' /\ phase' \in Phases /\ hb' \in HbPlaces
    BY <2>1 DEF InCallback, Phases, HbPlaces
  <2> QED
    BY <1>0, <2>1, <2>2, QuietStep
<1>3. CASE DailyCleared
  <2>1. /\ phase = "daily" /\ phase' = "dailyAdd"
        /\ UNCHANGED <<capacity, time, running, starts, hb, turn, ops, turns, hand, runs>>
    BY <1>3 DEF DailyCleared, MainStep, turnVars
  <2>2. phase' \in Phases
    BY <2>1 DEF Phases
  <2>3. CASE Has(Daily)
    <3>1. Erase("main", Daily)
      BY <1>3, <2>3 DEF DailyCleared
    <3> QED
      BY <1>0, <1>a, <1>c, <2>1, <2>2, <2>3, <3>1, EraseStep DEF Phases
  <2>4. CASE ~Has(Daily)
    <3>1. UNCHANGED <<store, saveVars, hist, round>>
      BY <1>3, <2>1, <2>4 DEF DailyCleared, store, saveVars, hist
    <3>2. \A k \in DOMAIN jobs : jobs[k].id # Daily
      BY <2>4 DEF Has
    <3> QED
      BY <1>0, <1>b, <2>1, <2>2, <3>1, <3>2, QuietStep
  <2> QED
    BY <2>3, <2>4
<1>4. CASE DailyAdded
  <2>1. /\ phase = "dailyAdd" /\ phase' = "on"
        /\ UNCHANGED <<past, running, starts, hb, turn, ops, turns, hand, runs>>
    BY <1>4 DEF DailyAdded, MainStep, turnVars
  <2>2. phase' \in Phases
    BY <2>1 DEF Phases
  <2>3. CASE Daily # None
    <3>1. Insert("main", Daily) /\ Daily \in Jobs
      BY <1>4, <2>3, CronAssumption DEF DailyAdded
    <3>2. \A k \in DOMAIN jobs : jobs[k].id # Daily
      BY <2>1 DEF CronInv, StoreInv, PhaseInv
    <3> QED
      BY <1>0, <1>a, <2>1, <2>2, <3>1, <3>2, InsertStep DEF Phases
  <2>4. CASE Daily = None
    <3>1. UNCHANGED <<store, time, saveVars, hist, round>>
      BY <1>4, <2>1, <2>4 DEF DailyAdded, time, hist
    <3> QED
      BY <1>0, <1>b, <2>1, <2>2, <3>1, QuietStep
  <2> QED
    BY <2>3, <2>4
<1>5. CASE DailyRemoved
  <2>1. /\ phase = "on" /\ phase' = "stopping"
        /\ UNCHANGED <<capacity, time, running, starts, hb, turn, ops, turns, hand, runs>>
    BY <1>5 DEF DailyRemoved, MainStep, turnVars
  <2>2. phase' \in Phases
    BY <2>1 DEF Phases
  <2>3. CASE Has(Daily)
    <3>1. Erase("main", Daily)
      BY <1>5, <2>3 DEF DailyRemoved
    <3> QED
      BY <1>0, <1>a, <1>c, <2>1, <2>2, <2>3, <3>1, EraseStep DEF Phases
  <2>4. CASE ~Has(Daily)
    <3>1. UNCHANGED <<store, saveVars, hist, round>>
      BY <1>5, <2>1, <2>4 DEF DailyRemoved, store, saveVars, hist
    <3> QED
      BY <1>0, <1>b, <2>1, <2>2, <3>1, QuietStep
  <2> QED
    BY <2>3, <2>4
<1>6. CASE HeartbeatStops
  <2>1. /\ phase = "stopping" /\ phase' = "joining" /\ running' = FALSE
        /\ UNCHANGED <<store, time, saveVars, hist, starts, hb, round, turn, ops, turns, hand>>
    BY <1>6 DEF HeartbeatStops, MainStep, turnVars
  <2>2. phase' \in Phases
    BY <2>1 DEF Phases
  <2> QED
    BY <1>0, <1>b, <2>1, <2>2, QuietStep
<1>7. CASE HeartbeatJoined
  <2>1. /\ phase = "joining" /\ phase' = "off"
        /\ UNCHANGED <<store, time, saveVars, hist, starts, running, hb, round, turn, ops, turns, hand>>
    BY <1>7 DEF HeartbeatJoined, MainStep, turnVars
  <2>2. phase' \in Phases
    BY <2>1 DEF Phases
  <2> QED
    BY <1>0, <1>b, <2>1, <2>2, QuietStep
<1>8. CASE ThreadNext("main")
  BY <1>a, <1>8, ToolStep
<1> QED
  BY <1>1, <1>2, <1>3, <1>4, <1>5, <1>6, <1>7, <1>8 DEF MainNext

\* The inbound thread.
LEMMA InboundStep ==
  ASSUME CronInv, InboundNext \/ \E a \in Agents : TurnBegins(a)
  PROVE  CronInv'
<1>0. /\ phase \in Phases /\ starts \in Nat /\ running \in BOOLEAN /\ hb \in HbPlaces
      /\ turn \in [Threads -> Agents \cup {None}] /\ ops \in [Threads -> Nat] /\ turns \in Nat
      /\ hand \in [Threads -> Jobs \cup {None}] /\ round \in Round
      /\ hb # "off" => phase \notin {"begin", "thread", "down"}
  BY TypeFacts
<1>a. "inbound" \in Threads
  BY DEF Threads
<1>b. hb' = hb => (InCallback' <=> InCallback)
  BY DEF InCallback
<1>1. CASE TurnEnds
  <2>1. /\ turn' = [turn EXCEPT !["inbound"] = None]
        /\ UNCHANGED <<store, time, saveVars, hist, phase, starts, running, hb, round, ops, turns, hand>>
    BY <1>1 DEF TurnEnds, proc
  <2>2. turn' \in [Threads -> Agents \cup {None}]
    BY <1>0, <2>1
  <2> QED
    BY <1>0, <1>b, <2>1, <2>2, QuietStep
<1>2. ASSUME NEW a \in Agents, TurnBegins(a)
      PROVE  CronInv'
  <2>1. /\ turn' = [turn EXCEPT !["inbound"] = a]
        /\ ops' = [ops EXCEPT !["inbound"] = 0] /\ turns' = turns + 1
        /\ UNCHANGED <<store, time, saveVars, hist, phase, starts, running, hb, round, hand>>
    BY <1>2 DEF TurnBegins, proc
  <2>2. turn' \in [Threads -> Agents \cup {None}] /\ ops' \in [Threads -> Nat] /\ turns' \in Nat
    <3>1. turns' \in Nat
      BY <1>0, <2>1
    <3>2. ops' \in [Threads -> Nat]
      BY <1>0, <2>1
    <3>3. turn' \in [Threads -> Agents \cup {None}]
      BY <1>0, <2>1
    <3> QED
      BY <3>1, <3>2, <3>3
  <2> QED
    BY <1>0, <1>b, <2>1, <2>2, QuietStep
<1>3. CASE ThreadNext("inbound")
  BY <1>a, <1>3, ToolStep
<1> QED
  BY <1>1, <1>2, <1>3 DEF InboundNext

LEMMA EndStep ==
  ASSUME CronInv, ProcessEnds
  PROVE  CronInv'
<1> USE DEF CronInv
<1>1. /\ phase' = "down" /\ running' = FALSE /\ hb' = "off" /\ round' = IdleRound
      /\ jobs' = <<>> /\ capacity' = 0
      /\ turn' = [th \in Threads |-> None] /\ ops' = [th \in Threads |-> 0]
      /\ hand' = [th \in Threads |-> None]
      /\ saving' = [th \in Threads |-> FALSE] /\ data' = [th \in Threads |-> <<>>]
      /\ UNCHANGED <<file, past, used, starts, turns, runs, disturbed>>
  BY DEF ProcessEnds, time, hist
<1>2. jobs' \in Seq(Entry) /\ Len(jobs') = 0 /\ DOMAIN jobs' = {}
  BY <1>1
<1>3. IdleRound \in Round /\ ~IdleRound.dangling
  BY TypeFacts
<1>4. data' \in [Threads -> Seq(Saved)] /\ \A th \in Threads : Listed(data'[th], used)
  BY <1>1 DEF Listed
<1>5. TypeOK'
  <2>1. round' \in Round
    BY <1>1, <1>3
  <2>2. /\ turn' \in [Threads -> Agents \cup {None}] /\ ops' \in [Threads -> Nat]
        /\ hand' \in [Threads -> Jobs \cup {None}] /\ saving' \in [Threads -> BOOLEAN]
    BY <1>1
  <2> QED
    <3>1. running' \in BOOLEAN /\ capacity' \in Nat
      BY <1>1
    <3>2. Len(jobs') <= capacity'
      BY <1>1, <1>2
    <3> QED
      BY <1>1, <1>2, <1>4, <2>1, <2>2, <3>1, <3>2 DEF StoreInv, TypeOK, Round
<1>6. StoredInv'
  <2>1. Listed(jobs', used')
    BY <1>2 DEF Listed
  <2> QED
    BY <1>1, <1>4, <2>1 DEF StoreInv, StoredInv
<1>7. PhaseInv'
  BY <1>1 DEF PhaseInv, InCallback
<1>8. PastInv'
  BY <1>1, <1>2 DEF PastInv, OneTime
<1>9. OnceInv'
  BY <1>1, <1>2, <1>3 DEF OnceInv, OneTime, InCallback
<1> QED
  BY <1>5, <1>6, <1>7, <1>8, <1>9 DEF StoreInv

LEMMA StartStep ==
  ASSUME CronInv, ProcessStarts
  PROVE  CronInv'
<1> USE DEF CronInv
<1> DEFINE js == [k \in DOMAIN file |->
                    [id |-> file[k].id, enabled |-> file[k].enabled, next |-> "none"]]
<1>1. /\ phase = "down" /\ phase' = "begin" /\ starts' = starts + 1
      /\ jobs' = IF file = Unreadable THEN <<>> ELSE js
      /\ capacity' = LoadedCapacity(Len(jobs'))
      /\ UNCHANGED <<file, past, used, running, hb, round, turn, ops, turns, hand, saving, data,
                     runs, disturbed>>
  BY DEF ProcessStarts, time, turnVars, hist
<1>2. hb = "off" /\ ~InCallback /\ ~InCallback'
  BY <1>1 DEF StoreInv, TypeOK, PhaseInv, InCallback
<1>3. /\ jobs' \in Seq(Entry) /\ Listed(jobs', used)
      /\ \A k \in DOMAIN jobs' : jobs'[k].next = "none"
  <2>1. CASE file = Unreadable
    <3>1. jobs' = <<>>
      BY <1>1, <2>1
    <3>2. <<>> \in Seq(Entry) /\ DOMAIN <<>> = {}
      OBVIOUS
    <3> QED
      BY <3>1, <3>2 DEF Listed
  <2>2. CASE file # Unreadable
    <3>1. file \in Seq(Saved) /\ Listed(file, used)
      BY <2>2 DEF StoreInv, TypeOK, StoredInv
    <3>2. DOMAIN file = 1 .. Len(file) /\ Len(file) \in Nat /\ \A k \in DOMAIN file : file[k] \in Saved
      BY <3>1
    <3>3. /\ DOMAIN js = DOMAIN file
          /\ \A k \in DOMAIN file : js[k] \in Entry /\ js[k].id = file[k].id /\ js[k].next = "none"
      BY <3>2 DEF Saved, Entry
    <3>4. js \in [1 .. Len(file) -> Entry]
      BY <3>2, <3>3
    <3>5. jobs' = js
      BY <1>1, <2>2
    <3> HIDE DEF js
    <3>6. js \in Seq(Entry)
      BY <3>2, <3>4, SeqDef
    <3>7. Listed(js, used)
      BY <3>1, <3>3 DEF Listed
    <3> QED
      BY <3>3, <3>5, <3>6, <3>7
  <2> QED
    BY <2>1, <2>2
<1>4. Len(jobs') \in Nat
  BY <1>3
<1>5. capacity' \in Nat /\ Len(jobs') <= capacity'
  BY <1>1, <1>4, LoadedFacts
<1>6. TypeOK'
  <2>1. starts' \in Nat
    BY <1>1 DEF StoreInv, TypeOK
  <2>2. jobs' \in Seq(Entry) /\ \A k \in DOMAIN jobs' : jobs'[k].id \in used \cup {Nameless}
    BY <1>3 DEF Listed
  <2>3. \A k, l \in DOMAIN jobs' : jobs'[k].id = jobs'[l].id => k = l \/ jobs'[k].id = Nameless
    BY <1>3 DEF Listed
  <2> QED
    BY <1>1, <1>5, <2>1, <2>2, <2>3 DEF StoreInv, TypeOK
<1>7. StoredInv'
  BY <1>1, <1>3 DEF StoreInv, StoredInv
<1>8. PhaseInv'
  BY <1>1, <1>2 DEF PhaseInv
<1>9. PastInv'
  BY <1>1, <1>3 DEF PastInv, OneTime
<1>10. DueBefore(jobs')
  BY <1>3 DEF DueBefore
<1>11. OnceInv'
  BY <1>1, <1>2, <1>10, OnceOutside
<1> QED
  BY <1>6, <1>7, <1>8, <1>9, <1>11 DEF StoreInv

\* A one-time job whose time comes has not been run.
LEMMA TimeStep ==
  ASSUME CronInv, NEW j \in Jobs, TimeComes(j)
  PROVE  CronInv'
<1> USE DEF CronInv
<1> DEFINE js == [k \in DOMAIN jobs |->
                    IF jobs[k].id = j /\ jobs[k].next = "later"
                    THEN [jobs[k] EXCEPT !.next = "due"] ELSE jobs[k]]
           n == Len(jobs)
<1>1. /\ Kind[j] # "repeat" => j \notin past
      /\ past' = IF Kind[j] = "repeat" THEN past ELSE past \cup {j}
      /\ jobs' = js
      /\ round' \in {round, [round EXCEPT !.notYet = @ \cup {j}]}
      /\ UNCHANGED <<capacity, used, phase, running, starts, hb, turn, ops, turns, hand, saving,
                     data, file, runs, disturbed>>
  BY DEF TimeComes, proc, turnVars, saveVars, hist
<1>2. /\ round \in Round /\ round' \in Round /\ round'.at = round.at /\ round'.job = round.job
      /\ round'.dangling = round.dangling
  <2>1. round \in Round
    BY TypeFacts
  <2>2. \A r \in Round : LET next == [r EXCEPT !.notYet = @ \cup {j}] IN
          next \in Round /\ next.at = r.at /\ next.job = r.job /\ next.dangling = r.dangling
    BY DEF Round
  <2> QED
    BY <1>1, <2>1, <2>2
<1>3. InCallback' <=> InCallback
  BY <1>1 DEF InCallback
<1>4. jobs \in Seq(Entry) /\ n \in Nat /\ DOMAIN jobs = 1 .. n /\ \A k \in DOMAIN jobs : jobs[k] \in Entry
  BY DEF StoreInv, TypeOK
<1>5. ASSUME NEW k \in DOMAIN jobs
      PROVE  /\ js[k] \in Entry /\ js[k].id = jobs[k].id
             /\ \/ js[k].next = jobs[k].next /\ ~ (jobs[k].id = j /\ js[k].next = "later")
                \/ jobs[k].id = j /\ jobs[k].next = "later" /\ js[k].next = "due"
  <2>1. jobs[k] \in Entry
    BY <1>4
  <2>2. \A e \in Entry : /\ [e EXCEPT !.next = "due"] \in Entry
                         /\ [e EXCEPT !.next = "due"].id = e.id
                         /\ [e EXCEPT !.next = "due"].next = "due"
    BY DEF Entry
  <2>3. js[k] = IF jobs[k].id = j /\ jobs[k].next = "later"
                THEN [jobs[k] EXCEPT !.next = "due"] ELSE jobs[k]
    OBVIOUS
  <2> HIDE DEF js, n
  <2>4. CASE jobs[k].id = j /\ jobs[k].next = "later"
    BY <2>1, <2>2, <2>3, <2>4
  <2>5. CASE ~(jobs[k].id = j /\ jobs[k].next = "later")
    <3>1. js[k] = jobs[k]
      BY <2>3, <2>5, Zenon
    <3> QED
      BY <2>1, <2>5, <3>1
  <2> QED
    BY <2>4, <2>5
<1>6. DOMAIN js = DOMAIN jobs
  OBVIOUS
<1>7. js \in Seq(Entry) /\ Len(js) = n
  <2>1. js \in [1 .. n -> Entry]
    BY <1>4, <1>5
  <2> HIDE DEF js
  <2> QED
    BY <1>4, <2>1, SeqDef, LenProperties
<1> HIDE DEF js
<1>8. Listed(js, used)
  BY <1>5, <1>6 DEF StoreInv, StoredInv, Listed
<1>9. past' \subseteq Jobs /\ past \subseteq past' /\ past' \subseteq past \cup {j}
      /\ (j \in OneTime => j \in past' /\ j \notin past)
  BY <1>1 DEF StoreInv, TypeOK, OneTime
<1>10. TypeOK'
  BY <1>1, <1>2, <1>7, <1>8, <1>9 DEF StoreInv, TypeOK, Listed, Round
<1>11. StoredInv'
  BY <1>1, <1>8 DEF StoreInv, StoredInv
<1>12. PhaseInv'
  BY <1>1, <1>2, <1>3, <1>5, <1>6 DEF StoreInv, PhaseInv
<1>13. ASSUME NEW i \in OneTime
       PROVE  /\ runs[i] > 0 => i \in past'
              /\ \A k \in DOMAIN js : js[k].id = i =>
                   /\ js[k].next = "due" => i \in past'
                   /\ js[k].next = "later" => i \notin past'
  <2>1. runs[i] > 0 => i \in past'
    BY <1>9 DEF PastInv
  <2>2. ASSUME NEW k \in DOMAIN js, js[k].id = i
        PROVE  /\ js[k].next = "due" => i \in past'
               /\ js[k].next = "later" => i \notin past'
    <3>1. CASE i = j
      BY <1>5, <1>6, <1>9, <2>2, <3>1
    <3>2. CASE i # j
      <4>1. js[k].next = jobs[k].next /\ jobs[k].id = i
        BY <1>5, <1>6, <2>2, <3>2
      <4> QED
        BY <1>6, <1>9, <3>2, <4>1 DEF PastInv
    <3> QED
      BY <3>1, <3>2
  <2> QED
    BY <2>1, <2>2
<1>14. PastInv'
  BY <1>1, <1>13 DEF PastInv, OneTime
<1>15. OnceInv'
  <2> SUFFICES ASSUME disturbed = "no"
               PROVE  /\ ~round.dangling
                      /\ InCallback /\ round.job \in Jobs =>
                           round.at \in DOMAIN js /\ js[round.at].id = round.job
                      /\ \A i \in OneTime :
                           /\ runs[i] <= 1
                           /\ \A k \in DOMAIN js : js[k].id = i /\ js[k].next = "due" =>
                                runs[i] = 0 \/ (InCallback /\ round.job = i)
    BY <1>1, <1>2, <1>3 DEF OnceInv, OneTime
  <2>1. InCallback /\ round.job \in Jobs => round.at \in DOMAIN js /\ js[round.at].id = round.job
    BY <1>5, <1>6 DEF OnceInv
  <2>2. ASSUME NEW i \in OneTime, NEW k \in DOMAIN js, js[k].id = i, js[k].next = "due"
        PROVE  runs[i] = 0 \/ (InCallback /\ round.job = i)
    <3>1. CASE i = j
      <4>1. ~ (runs[i] > 0) /\ runs[i] \in Nat
        BY <1>9, <3>1 DEF PastInv, StoreInv, TypeOK
      <4> QED
        BY <4>1
    <3>2. CASE i # j
      <4>1. jobs[k].next = "due" /\ jobs[k].id = i /\ k \in DOMAIN jobs
        BY <1>5, <1>6, <2>2, <3>2
      <4> QED
        BY <4>1 DEF OnceInv
    <3> QED
      BY <3>1, <3>2
  <2> QED
    BY <2>1, <2>2 DEF OnceInv
<1> QED
  BY <1>10, <1>11, <1>12, <1>14, <1>15 DEF StoreInv

----------------------------------------------------------------------------
(* The theorems *)

LEMMA CronInit == Init => CronInv
<1> SUFFICES ASSUME Init PROVE CronInv
  OBVIOUS
<1>1. /\ jobs = <<>> /\ capacity = 0 /\ file = <<>> /\ past = {} /\ used = {}
      /\ phase = "begin" /\ running = FALSE /\ starts = 1 /\ hb = "off" /\ round = IdleRound
      /\ turn = [th \in Threads |-> None] /\ ops = [th \in Threads |-> 0] /\ turns = 0
      /\ hand = [th \in Threads |-> None] /\ saving = [th \in Threads |-> FALSE]
      /\ data = [th \in Threads |-> <<>>] /\ runs = [j \in Jobs |-> 0] /\ disturbed = "no"
  BY DEF Init
<1>2. \A ids : Listed(<<>>, ids)
  BY DEF Listed
<1>3. IdleRound \in Round /\ ~IdleRound.dangling
  BY DEF Round, IdleRound
<1>4. TypeOK
  <2>1. jobs \in Seq(Entry) /\ Len(jobs) <= capacity /\ DOMAIN jobs = {} /\ file \in Seq(Saved)
    BY <1>1
  <2>2. /\ turn \in [Threads -> Agents \cup {None}] /\ ops \in [Threads -> Nat]
        /\ hand \in [Threads -> Jobs \cup {None}] /\ saving \in [Threads -> BOOLEAN]
        /\ data \in [Threads -> Seq(Saved)] /\ runs \in [Jobs -> Nat]
    BY <1>1
  <2> QED
    BY <1>1, <1>3, <2>1, <2>2 DEF TypeOK, Round
<1>5. StoredInv
  BY <1>1, <1>2 DEF StoredInv
<1>6. PhaseInv /\ PastInv
  BY <1>1 DEF PhaseInv, PastInv, InCallback, OneTime
<1>7. OnceInv
  BY <1>1, <1>3 DEF OnceInv, InCallback, OneTime
<1> QED
  BY <1>4, <1>5, <1>6, <1>7 DEF CronInv, StoreInv

LEMMA CronStep == CronInv /\ [Next]_vars => CronInv'
<1> SUFFICES ASSUME CronInv, [Next]_vars PROVE CronInv'
  OBVIOUS
<1>1. CASE UNCHANGED vars
  <2>1. UNCHANGED <<jobs, capacity, file, past, used, phase, running, starts, hb, round, turn, ops,
                    turns, hand, saving, data, runs, disturbed>>
    BY <1>1 DEF vars, store, time, proc, turnVars, saveVars, hist
  <2> QED
    BY <2>1 DEF CronInv, StoreInv, TypeOK, StoredInv, PhaseInv, PastInv, OnceInv, InCallback, OneTime
<1>2. CASE Next
  BY <1>2, HeartbeatStep, InboundStep, MainThreadStep, EndStep, StartStep, TimeStep DEF Next
<1> QED
  BY <1>1, <1>2

LEMMA CronInvariant == Spec => []CronInv
  BY CronInit, CronStep, PTL DEF Spec

\* The types of the service's state: the vector stays within its capacity and no id is in it
\* twice, whatever the threads do without a lock.
THEOREM CronTypes == Spec => []TypeOK
<1>1. CronInv => TypeOK
  BY DEF CronInv, StoreInv
<1> QED
  BY <1>1, CronInvariant, PTL

\* The clock runs a one-time job once, across crashes and restarts, unless a job is added or
\* removed while one runs.
THEOREM ClockRunsOnce == Spec => []OnceIfUndisturbed
<1>1. CronInv => OnceIfUndisturbed
  BY DEF CronInv, OnceInv, OnceIfUndisturbed, RunsOnce, OneTime
<1> QED
  BY <1>1, CronInvariant, PTL

=============================================================================
