-------------------------- MODULE CoordinatorProofs --------------------------
(***************************************************************************)
(* Proofs about Coordinator, for any number of applications, jobs, request *)
(* handlers and restarts.                                                  *)
(***************************************************************************)
EXTENDS Coordinator, DeployQueueProofs

LEMMA CallersFacts == Sched \in Callers /\ Clients \subseteq Callers /\ JobIds \subseteq Callers
  BY CallersAssumption

(* A step of the service is a step of the queue, or leaves it alone.       *)
LEMMA StepIsQueueStep == CNext => [Next]_vars
<1> SUFFICES ASSUME CNext PROVE [Next]_vars
  OBVIOUS
<1> USE CallersFacts
<1>1. CASE Schedule
  BY <1>1 DEF Schedule, ListApps, Skip, Take, Launch, EndPass, StopScheduling, Next, Deploy
<1>2. ASSUME NEW j \in JobIds, RunDeploy(j) PROVE [Next]_vars
  BY <1>2 DEF RunDeploy, EndRun, StopAtCheckpoint, Mark, CaptureLog, Exit, Next, Deploy
<1>3. CASE Http
  BY <1>3 DEF Http, Next
<1>4. ASSUME NEW c \in Callers, Drop(c) PROVE [Next]_vars
  BY <1>4 DEF Drop, Next
<1>5. CASE Shutdown
  BY <1>5 DEF Shutdown
<1>6. CASE StartAgain
  BY <1>6 DEF StartAgain, Next
<1> QED BY <1>1, <1>2, <1>3, <1>4, <1>5, <1>6 DEF CNext

(* The service implements the queue, so every theorem about the queue      *)
(* holds of the service.                                                   *)
THEOREM CoordinatorImplementsQueue == CSpec => ImplementsQueue
<1>1. CInit => Init
  BY DEF CInit
<1>2. [CNext]_allVars => [Next]_vars
  BY StepIsQueueStep DEF allVars
<1> QED BY <1>1, <1>2, PTL DEF CSpec, Spec, ImplementsQueue

LEMMA QueueInvariants == CSpec => [](TypeOK /\ SeqInv)
  BY CoordinatorImplementsQueue, TypeCorrect, SeqInvariant, PTL DEF ImplementsQueue

-----------------------------------------------------------------------------

(* What request handlers, and every step that is not the scheduler's, a    *)
(* worker's or the process's, do to the rows of running jobs: nothing but  *)
(* ask them to stop.                                                       *)
Spares(j) ==
  /\ IsRunning(j)' <=> IsRunning(j)
  /\ j \in Issued => j \in Issued'
  /\ j \in Rows' /\ j \in Issued =>
       /\ j \in Rows /\ jobs'[j].app = jobs[j].app
       /\ jobs'[j].status = "pending" => jobs[j].status = "pending"

LEMMA UnchangedSpares ==
  ASSUME UNCHANGED <<jobs, issued>>, NEW j \in JobIds PROVE Spares(j)
  BY DEF Spares, IsRunning, Rows, Issued

LEMMA InsertSpares ==
  ASSUME TypeOK, SeqInv, NEW c \in Callers, NEW i \in JobIds, NEW k \in Nat, InsertRow(c, i, k),
         NEW j \in JobIds
  PROVE  Spares(j)
<1>1. i \notin Issued /\ i \notin Rows /\ Issued' = Issued \cup {i}
  BY AppendFacts DEF InsertRow, SeqInv, TypeOK
<1>2. CASE j = i
  BY <1>1, <1>2, InsertRowType DEF Spares, IsRunning, Running
<1>3. CASE j # i
  BY <1>1, <1>3, InsertRowType DEF Spares, IsRunning, Rows
<1> QED BY <1>2, <1>3

LEMMA CancelSpares ==
  ASSUME TypeOK, NEW S, S \subseteq Rows, CancelAll(S), UNCHANGED issued, NEW j \in JobIds
  PROVE  Spares(j)
<1>1. KeepsRow(j) /\ Issued' = Issued
  BY CancelAllKeeps DEF Issued
<1>2. CASE j \in S /\ jobs[j].status \in {"pending", "in_progress"}
  <2>1. /\ jobs[j] \in Row /\ j \in Rows
        /\ jobs'[j] = [jobs[j] EXCEPT !.status = IF jobs[j].status = "pending" THEN "canceled" ELSE "cancel_requested"]
    BY <1>2 DEF CancelAll, TypeOK, Rows
  <2>2. jobs'[j] \in Row
    BY <1>2, <2>1 DEF Row, Active, Running, Terminal
  <2>3. jobs'[j].status = IF jobs[j].status = "pending" THEN "canceled" ELSE "cancel_requested"
    BY <2>1 DEF Row
  <2> QED BY <1>1, <1>2, <2>1, <2>2, <2>3, SentinelAssumption DEF KeepsRow, Spares, IsRunning, Rows, Running
<1>3. CASE ~(j \in S /\ jobs[j].status \in {"pending", "in_progress"})
  BY <1>1, <1>3 DEF CancelAll, Spares, IsRunning, Rows
<1> QED BY <1>2, <1>3

LEMMA DeleteSpares ==
  ASSUME TypeOK, NEW c \in Callers, NEW a \in Apps, DeleteApp(c, a), NEW j \in JobIds
  PROVE  Spares(j)
<1>1. jobs'[j] = IF j \in RowsOf(a) THEN NoJob ELSE jobs[j]
  BY DEF DeleteApp
<1>2. j \in RowsOf(a) => ~IsRunning(j)
  BY DEF DeleteApp, RunningOf, IsRunning
<1>3. UNCHANGED issued
  BY DEF DeleteApp, Write
<1> QED BY <1>1, <1>2, <1>3 DEF Spares, IsRunning, Rows, RowsOf, Issued

LEMMA HttpSpares ==
  ASSUME TypeOK, SeqInv, Http, NEW j \in JobIds PROVE Spares(j)
<1>1. ASSUME NEW c \in Clients, Request(c) PROVE Spares(j)
  <2>1. ASSUME NEW i \in JobIds, NEW k \in 1..(Len(issued) + 1), InsertRow(c, i, k)
        PROVE Spares(j)
    BY <2>1, CallersFacts, InsertSpares DEF TypeOK
  <2> QED
    BY <1>1, <2>1, UnchangedSpares
       DEF Request, Admit, ManualDeploy, RetryHistoryJob, Submit, CheckOriginal, LookupHit,
           LookupLock, LookupQuery, LookupPublish, LookupFail, CountPending, Insert, InsertFail
<1>2. ASSUME NEW c \in Clients, Control(c) PROVE Spares(j)
  BY <1>2, CallersFacts, CancelSpares, DeleteSpares
     DEF Control, RequestJobCancel, RequestAppCancel, Write, RowsOf
<1>3. ASSUME NEW a \in Apps, SetEnabled(a) PROVE Spares(j)
  BY <1>3, UnchangedSpares DEF SetEnabled
<1> QED BY <1>1, <1>2, <1>3 DEF Http

(* The writers of the scheduler and of the workers change one row.         *)
LEMMA UpdateOne ==
  ASSUME TypeOK, NEW i \in Rows, NEW s \in Active \cup Terminal, jobs' = Update({i}, s), UNCHANGED issued
  PROVE  /\ Rows' = Rows /\ Issued' = Issued
         /\ jobs'[i].status = s /\ jobs'[i].app = jobs[i].app
         /\ \A j \in JobIds \ {i} : jobs'[j] = jobs[j]
<1>1. jobs[i] \in Row /\ i \in JobIds
  BY DEF TypeOK, Rows
<1>2. jobs'[i] = [jobs[i] EXCEPT !.status = s]
  BY <1>1 DEF Update
<1>3. jobs'[i].status = s /\ jobs'[i].app = jobs[i].app /\ jobs'[i] \in Row
  BY <1>1, <1>2 DEF Row
<1> QED BY <1>3, SentinelAssumption DEF Update, Rows, Issued

-----------------------------------------------------------------------------

LEMMA MoveToFacts ==
  ASSUME CTypeOK, NEW j \in JobIds, j \in Workers, NEW s \in Stages, MoveTo(j, s)
  PROVE  /\ worker' \in [JobIds -> [app : Apps, at : Stages] \cup {NoJob}]
         /\ Workers' = Workers
         /\ worker'[j].app = worker[j].app /\ worker'[j].at = s
         /\ \A i \in JobIds \ {j} : worker'[i] = worker[i]
<1>1. worker[j] \in [app : Apps, at : Stages]
  BY DEF CTypeOK, Workers
<1>2. worker' = [worker EXCEPT ![j] = [worker[j] EXCEPT !.at = s]]
  BY DEF MoveTo
<1>3. [worker[j] EXCEPT !.at = s] \in [app : Apps, at : Stages]
      /\ [worker[j] EXCEPT !.at = s].app = worker[j].app
      /\ [worker[j] EXCEPT !.at = s].at = s
  BY <1>1
<1>4. [worker[j] EXCEPT !.at = s] # NoJob
  BY <1>3, WorkerAssumption
<1> QED BY <1>2, <1>3, <1>4 DEF CTypeOK, Workers

LEMMA LaunchFacts ==
  ASSUME TypeOK, CTypeOK, CoordInv, Launch
  PROVE  /\ handed \in JobIds /\ handed \notin Workers
         /\ jobs[handed].app \in Apps
         /\ worker'[handed].app = jobs[handed].app /\ worker'[handed].at = "run"
         /\ Workers' = Workers \cup {handed}
         /\ \A i \in JobIds \ {handed} : worker'[i] = worker[i]
         /\ worker' \in [JobIds -> [app : Apps, at : Stages] \cup {NoJob}]
<1>1. handed \in JobIds /\ handed \in Rows /\ handed \notin Workers
  BY DEF Launch, CTypeOK, CoordInv, HandedInv, IsRunning
<1>2. jobs[handed].app \in Apps
  BY <1>1, JobsType
<1>3. Worker(jobs[handed].app, "run") \in [app : Apps, at : Stages]
  BY <1>2 DEF Worker, Stages
<1> QED BY <1>1, <1>2, <1>3, WorkerAssumption DEF Launch, CTypeOK, Workers, Worker

LEMMA CTypeStep == TypeOK /\ CTypeOK /\ CoordInv /\ [CNext]_allVars => CTypeOK'
<1> SUFFICES ASSUME TypeOK, CTypeOK, CoordInv, [CNext]_allVars PROVE CTypeOK'
  OBVIOUS
<1>1. CASE Schedule
  <2>1. CASE Launch
    BY <2>1, LaunchFacts DEF Launch, CTypeOK
  <2>2. CASE ListApps \/ EndPass \/ StopScheduling
    BY <2>2 DEF ListApps, EndPass, StopScheduling, CTypeOK
  <2>3. ASSUME NEW a \in Apps, Skip(a) PROVE CTypeOK'
    BY <2>3 DEF Skip, CTypeOK
  <2>4. ASSUME NEW a \in Apps, NEW j \in JobIds, Take(a, j) PROVE CTypeOK'
    BY <2>4 DEF Take, CTypeOK
  <2> QED BY <1>1, <2>1, <2>2, <2>3, <2>4 DEF Schedule
<1>2. ASSUME NEW j \in JobIds, RunDeploy(j) PROVE CTypeOK'
  <2>1. CASE Exit(j)
    BY <2>1 DEF Exit, CTypeOK
  <2>2. ASSUME NEW s \in Stages, MoveTo(j, s), j \in Workers,
               UNCHANGED <<sched, todo, handed, activeApps, draining, restarts>>
        PROVE  CTypeOK'
    BY <2>2, MoveToFacts DEF CTypeOK
  <2> QED BY <1>2, <2>1, <2>2
          DEF RunDeploy, EndRun, StopAtCheckpoint, Mark, CaptureLog, At, Stages
<1>3. CASE Http
  BY <1>3 DEF Http, coordVars, CTypeOK
<1>4. ASSUME NEW c \in Callers, Drop(c) PROVE CTypeOK'
  BY <1>4 DEF Drop, coordVars, CTypeOK
<1>5. CASE Shutdown
  BY <1>5 DEF Shutdown, CTypeOK
<1>6. CASE StartAgain
  <2>1. worker' \in [JobIds -> [app : Apps, at : Stages] \cup {NoJob}]
    BY <1>6 DEF StartAgain
  <2>2. todo' \subseteq Apps /\ activeApps' \subseteq Apps /\ draining' \in BOOLEAN
    BY <1>6 DEF StartAgain
  <2>3. restarts' \in Nat
    BY <1>6 DEF StartAgain, CTypeOK
  <2> QED BY <1>6, <2>1, <2>2, <2>3 DEF StartAgain, CTypeOK
<1>7. CASE UNCHANGED allVars
  BY <1>7 DEF allVars, coordVars, CTypeOK
<1> QED BY <1>1, <1>2, <1>3, <1>4, <1>5, <1>6, <1>7 DEF CNext

LEMMA SparesKeepsCoordInv ==
  ASSUME SeqInv, CTypeOK, CoordInv, \A j \in JobIds : Spares(j),
         UNCHANGED <<handed, activeApps, worker>>
  PROVE  CoordInv'
<1>1. WorkersInv'
  BY DEF WorkersInv, CoordInv, Spares, Workers, At, IsRunning
<1>2. HandedInv'
  BY DEF HandedInv, CoordInv, Spares, Workers, IsRunning, SeqInv, CTypeOK
<1>3. RunningRowHasDeploy'
  BY DEF RunningRowHasDeploy, CoordInv, Spares, Workers, At
<1> QED BY <1>1, <1>2, <1>3 DEF CoordInv

LEMMA TakeKeepsCoordInv ==
  ASSUME TypeOK, SeqInv, CTypeOK, CoordInv, NEW a \in Apps, NEW j \in JobIds, Take(a, j)
  PROVE  CoordInv'
<1>1. /\ j \in Rows /\ jobs[j].app = a /\ jobs[j].status = "pending"
      /\ jobs' = Update({j}, "in_progress") /\ UNCHANGED issued
      /\ a \notin activeApps /\ handed = NoJob /\ handed' = j
      /\ UNCHANGED <<activeApps, worker>>
  BY DEF Take, Visiting, DequeueNext, Oldest, PendingOf, RowsOf, Write
<1>2. /\ Rows' = Rows /\ Issued' = Issued
      /\ jobs'[j].status = "in_progress" /\ jobs'[j].app = a
      /\ \A i \in JobIds \ {j} : jobs'[i] = jobs[i]
  BY <1>1, UpdateOne DEF Active, Running
<1>3. j \notin Workers
  BY <1>1 DEF CoordInv, WorkersInv
<1>4. WorkersInv'
  <2>1. Workers' = Workers /\ \A i \in Workers : i # j /\ jobs'[i] = jobs[i]
    BY <1>1, <1>2, <1>3 DEF Workers
  <2> QED BY <1>1, <1>2, <2>1 DEF CoordInv, WorkersInv, At, IsRunning
<1>5. HandedInv'
  BY <1>1, <1>2, <1>3 DEF HandedInv, Workers, IsRunning, Running
<1>6. RunningRowHasDeploy'
  BY <1>1, <1>2, SentinelAssumption DEF CoordInv, RunningRowHasDeploy, Workers, At, IsRunning
<1> QED BY <1>4, <1>5, <1>6 DEF CoordInv

LEMMA LaunchKeepsCoordInv ==
  ASSUME TypeOK, SeqInv, CTypeOK, CoordInv, Launch
  PROVE  CoordInv'
<1>1. /\ handed' = NoJob /\ UNCHANGED <<jobs, issued>>
      /\ activeApps' = activeApps \cup {jobs[handed].app}
      /\ IsRunning(handed) /\ jobs[handed].app \notin activeApps
  BY DEF Launch, vars, CoordInv, HandedInv
<1>2. Rows' = Rows /\ Issued' = Issued
  BY <1>1 DEF Rows, Issued
<1>3. WorkersInv'
  <2>1. \A j \in Workers : worker'[j] = worker[j] /\ worker[j].app \in activeApps
    BY LaunchFacts DEF CoordInv, WorkersInv, Workers
  <2> QED BY <1>1, <1>2, <2>1, LaunchFacts
          DEF CoordInv, WorkersInv, At, IsRunning, Running, SeqInv, Workers
<1>4. HandedInv'
  BY <1>1 DEF HandedInv
<1>5. RunningRowHasDeploy'
  BY <1>1, <1>2, LaunchFacts DEF CoordInv, RunningRowHasDeploy, At, IsRunning, Workers
<1> QED BY <1>3, <1>4, <1>5 DEF CoordInv

(* A worker ends its own row, if it is running, and moves on.              *)
LEMMA WorkerStep ==
  ASSUME TypeOK, SeqInv, CTypeOK, CoordInv, NEW j \in JobIds, j \in Workers,
         NEW s \in Stages \ {"run"}, MoveTo(j, s), UNCHANGED <<handed, activeApps, issued>>,
         \/ UNCHANGED jobs /\ (DbMayFail \/ ~IsRunning(j) \/ s \in {"won", "lost"})
         \/ j \in Rows /\ \E t \in Terminal : jobs' = Update({j}, t)
  PROVE  CoordInv'
<1>1. /\ Rows' = Rows /\ Issued' = Issued
      /\ j \in Rows => jobs'[j].app = jobs[j].app
      /\ jobs'[j] = jobs[j] \/ (j \in Rows /\ jobs'[j].status \in Terminal)
      /\ \A i \in JobIds \ {j} : jobs'[i] = jobs[i]
  BY UpdateOne DEF Rows, Issued
<1>2. WorkersInv'
  BY <1>1, MoveToFacts DEF CoordInv, WorkersInv, At, IsRunning, Terminal, Workers
<1>3. HandedInv'
  <2>1. CASE handed # NoJob
    <3>1. handed \in JobIds \ {j}
      BY <2>1 DEF CoordInv, HandedInv, CTypeOK
    <3> QED BY <1>1, <3>1, MoveToFacts DEF CoordInv, HandedInv, IsRunning
  <2>2. CASE handed = NoJob
    BY <2>2 DEF HandedInv
  <2> QED BY <2>1, <2>2
<1>4. RunningRowHasDeploy'
  <2> SUFFICES ASSUME ~DbMayFail, NEW i \in JobIds, IsRunning(i)'
               PROVE  (i = handed \/ At(i, "run") \/ At(i, "won") \/ At(i, "lost"))'
    BY DEF RunningRowHasDeploy
  <2>1. CASE i = j
    <3>1. jobs'[j].status \notin Terminal
      BY <2>1 DEF IsRunning, Running, Terminal
    <3>2. s \in {"won", "lost"}
      BY <1>1, <2>1, <3>1, UpdateOne DEF IsRunning, Running, Active
    <3> QED BY <2>1, <3>2, MoveToFacts DEF At
  <2>2. CASE i # j
    <3>1. IsRunning(i)
      BY <1>1, <2>2 DEF IsRunning
    <3> QED BY <2>2, <3>1, MoveToFacts DEF CoordInv, RunningRowHasDeploy, At
  <2> QED BY <2>1, <2>2
<1> QED BY <1>2, <1>3, <1>4 DEF CoordInv

LEMMA RunDeployKeepsCoordInv ==
  ASSUME TypeOK, SeqInv, CTypeOK, CoordInv, NEW j \in JobIds, RunDeploy(j)
  PROVE  CoordInv'
<1>1. ASSUME NEW ok \in BOOLEAN, EndRun(j, ok) PROVE CoordInv'
  BY <1>1, WorkerStep DEF EndRun, vars, At, Stages
<1>2. ASSUME NEW s \in Terminal, StopAtCheckpoint(j, s) PROVE CoordInv'
  BY <1>2, WorkerStep DEF StopAtCheckpoint, MarkTerminal, Write, At, Stages
<1>3. CASE Mark(j)
  <2>1. ASSUME NEW ok \in BOOLEAN, MarkDone(j, j, ok)
        PROVE  \/ UNCHANGED jobs /\ ~IsRunning(j)
               \/ j \in Rows /\ \E t \in Terminal : jobs' = Update({j}, t)
    <3>1. CASE IsRunning(j)
      <4>1. {j} \cap {k \in Rows : jobs[k].status \in Running} = {j}
        BY <3>1 DEF IsRunning
      <4>2. (IF ok THEN "succeeded" ELSE "failed") \in Terminal
        BY DEF Terminal
      <4> QED BY <2>1, <3>1, <4>1, <4>2 DEF MarkDone, IsRunning
    <3>2. CASE ~IsRunning(j)
      BY <2>1, <3>2 DEF MarkDone, Update, IsRunning, TypeOK
    <3> QED BY <3>1, <3>2
  <2>2. \/ UNCHANGED jobs /\ (DbMayFail \/ ~IsRunning(j))
        \/ j \in Rows /\ \E t \in Terminal : jobs' = Update({j}, t)
    <3>1. CASE WriteFail(j)
      BY <3>1 DEF WriteFail
    <3>2. CASE MarkDone(j, j, worker[j].at = "won")
      <4>1. (worker[j].at = "won") \in BOOLEAN
        OBVIOUS
      <4> QED BY <2>1, <3>2, <4>1
    <3> QED BY <1>3, <3>1, <3>2 DEF Mark
  <2>3. UNCHANGED issued
    BY <1>3 DEF Mark, MarkDone, WriteFail, Write
  <2> QED BY <1>3, <2>2, <2>3, WorkerStep DEF Mark, At, Stages
<1>4. CASE CaptureLog(j)
  <2>1. ~IsRunning(j) \/ DbMayFail
    <3>1. At(j, "log") /\ j \in Workers
      BY <1>4 DEF CaptureLog, At
    <3>2. j # handed
      BY <3>1, SentinelAssumption DEF CoordInv, HandedInv
    <3> QED BY <3>1, <3>2 DEF CoordInv, RunningRowHasDeploy, At
  <2> QED BY <1>4, <2>1, WorkerStep DEF CaptureLog, SaveJobLog, Write, vars, At, Stages
<1>5. CASE Exit(j)
  <2>1. /\ j \in Workers /\ worker[j].at = "exit"
        /\ UNCHANGED <<jobs, issued, handed>>
        /\ activeApps' = activeApps \ {worker[j].app}
        /\ Workers' = Workers \ {j}
        /\ \A i \in Workers' : worker'[i] = worker[i] /\ worker[i].app # worker[j].app
    BY <1>5 DEF Exit, vars, At, Workers, CTypeOK, CoordInv, WorkersInv
  <2>2. Rows' = Rows /\ Issued' = Issued
    BY <2>1 DEF Rows, Issued
  <2>3. WorkersInv'
    BY <2>1, <2>2 DEF CoordInv, WorkersInv, At, IsRunning
  <2>4. HandedInv'
    BY <2>1, <2>2 DEF CoordInv, HandedInv, IsRunning
  <2>5. RunningRowHasDeploy'
    BY <2>1, <2>2 DEF CoordInv, RunningRowHasDeploy, At, IsRunning
  <2> QED BY <2>3, <2>4, <2>5 DEF CoordInv
<1> QED BY <1>1, <1>2, <1>3, <1>4, <1>5 DEF RunDeploy

LEMMA StartAgainKeepsCoordInv ==
  ASSUME TypeOK, StartAgain
  PROVE  CoordInv'
<1>1. Workers' = {} /\ handed' = NoJob
  BY DEF StartAgain, Workers
<1>2. ~DbMayFail => \A j \in JobIds : ~IsRunning(j)'
  <2> SUFFICES ASSUME ~DbMayFail, NEW j \in JobIds PROVE ~IsRunning(j)'
    OBVIOUS
  <2>1. jobs' = Update({k \in Rows : jobs[k].status \in Running}, "failed")
    BY DEF StartAgain, Restart, RecoverStale
  <2>2. CASE IsRunning(j)
    <3>1. jobs'[j] = [jobs[j] EXCEPT !.status = "failed"] /\ jobs[j] \in Row
      BY <2>1, <2>2 DEF Update, IsRunning, TypeOK, Rows
    <3>2. jobs'[j].status = "failed"
      BY <3>1 DEF Row
    <3> QED BY <3>2 DEF IsRunning, Running
  <2>3. CASE ~IsRunning(j)
    BY <2>1, <2>3 DEF Update, IsRunning, Rows
  <2> QED BY <2>2, <2>3
<1> QED BY <1>1, <1>2 DEF CoordInv, WorkersInv, HandedInv, RunningRowHasDeploy

LEMMA CoordInvariant == CSpec => [](CTypeOK /\ CoordInv)
<1>1. CInit => CTypeOK /\ CoordInv
  <2> SUFFICES ASSUME CInit PROVE CTypeOK /\ CoordInv
    OBVIOUS
  <2>1. Workers = {} /\ handed = NoJob /\ Rows = {}
    BY DEF CInit, Init, Workers, Rows
  <2>2. CTypeOK
    BY DEF CInit, CTypeOK
  <2> QED BY <2>1, <2>2 DEF CoordInv, WorkersInv, HandedInv, RunningRowHasDeploy, IsRunning
<1>2. TypeOK /\ SeqInv /\ CTypeOK /\ CoordInv /\ [CNext]_allVars => CoordInv'
  <2> SUFFICES ASSUME TypeOK, SeqInv, CTypeOK, CoordInv, [CNext]_allVars PROVE CoordInv'
    OBVIOUS
  <2>1. ASSUME UNCHANGED <<jobs, issued, handed, activeApps, worker>> PROVE CoordInv'
    BY <2>1, UnchangedSpares, SparesKeepsCoordInv
  <2>2. CASE Schedule
    BY <2>1, <2>2, TakeKeepsCoordInv, LaunchKeepsCoordInv
       DEF Schedule, ListApps, Skip, EndPass, StopScheduling, vars
  <2>3. CASE Http
    BY <2>3, HttpSpares, SparesKeepsCoordInv DEF Http, coordVars
  <2>4. ASSUME NEW c \in Callers, Drop(c) PROVE CoordInv'
    BY <2>1, <2>4 DEF Drop, Invalidate, coordVars
  <2>5. CASE Shutdown \/ UNCHANGED allVars
    BY <2>1, <2>5 DEF Shutdown, allVars, vars, coordVars
  <2> QED BY <2>2, <2>3, <2>4, <2>5, RunDeployKeepsCoordInv, StartAgainKeepsCoordInv DEF CNext
<1> QED BY <1>1, <1>2, CTypeStep, QueueInvariants, PTL DEF CSpec

(* At most one deploy per application at any time, counting the one being  *)
(* launched.                                                               *)
THEOREM OneDeployAtATime == CSpec => []OneDeployPerApp
<1>1. CoordInv => OneDeployPerApp
  BY DEF CoordInv, WorkersInv, HandedInv, OneDeployPerApp, Deploying, AppOf, Workers
<1> QED BY <1>1, CoordInvariant, PTL

(* A deploy's row stays, and says it is running, until the deploy ends it: *)
(* a cancel request only signals it and a delete is refused.               *)
THEOREM DeployKeepsItsRow == CSpec => []DeployHasRunningRow
<1>1. CTypeOK /\ CoordInv => DeployHasRunningRow
  BY SentinelAssumption DEF CTypeOK, CoordInv, WorkersInv, HandedInv, DeployHasRunningRow, At
<1> QED BY <1>1, CoordInvariant, PTL

(* No row is left running without a deploy, if statements do not fail.     *)
THEOREM NoRowLeftRunning == CSpec => []RunningRowHasDeploy
<1>1. CoordInv => RunningRowHasDeploy
  BY DEF CoordInv
<1> QED BY <1>1, CoordInvariant, PTL

(* What is proved of the queue holds of the running service, with its      *)
(* scheduler, its deploys and its restarts: a coherent snapshot, one       *)
(* active job per application and tag, arrival order, no more jobs over    *)
(* the limit than requests at once, and a job that starts at most once.    *)
THEOREM ServiceKeepsQueue ==
  CSpec => /\ [](CacheCoherent /\ UniqueActive /\ SeqFollowsArrival /\ Overshoot)
           /\ ImplementsLifecycle
  BY CoordinatorImplementsQueue, CacheIsCoherent, ActiveIsUnique, SeqIsArrivalOrder,
     OvershootIsBounded, QueueImplementsLifecycle, PTL DEF ImplementsQueue

=============================================================================
