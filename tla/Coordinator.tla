----------------------------- MODULE Coordinator -----------------------------
(***************************************************************************)
(* The running service: internal/coordinator's scheduler goroutine and its *)
(* runDeploy goroutines working on the queue of DeployQueue, beside the    *)
(* request handlers, through shutdowns, crashes and restarts.  A deploy    *)
(* itself (internal/deploy, module DeployRunner) is reduced here to what   *)
(* it does to its job: it ends, or it stops at a checkpoint.               *)
(***************************************************************************)
EXTENDS DeployQueue

CONSTANTS
  Clients,     \* Goroutines of request handlers.
  Sched,       \* The scheduler goroutine.
  MaxRestarts  \* Bound: how often the process starts again.

ASSUME CallersAssumption ==
  /\ Callers = Clients \cup {Sched} \cup JobIds
  /\ Sched \notin Clients \cup JobIds
  /\ Clients \cap JobIds = {}
ASSUME MaxRestartsAssumption == MaxRestarts \in Nat

VARIABLES
  sched,       \* Where the scheduler is.
  todo,        \* The enabled applications of its List not visited yet.
  handed,      \* The job it dequeued and has not launched yet.
  activeApps,  \* The applications with a runDeploy goroutine.
  worker,      \* The runDeploy goroutine of each job.
  draining,    \* The context is canceled: SIGINT or SIGTERM came.
  restarts     \* How often the process has started again.

coordVars == <<sched, todo, handed, activeApps, worker, draining, restarts>>
allVars == <<vars, coordVars>>

Stages == {"run", "won", "lost", "log", "exit"}
Workers == {j \in JobIds : worker[j] # NoJob}
ASSUME WorkerAssumption == NoJob \notin [app : Apps, at : Stages]
Worker(a, s) == [app |-> a, at |-> s]
At(j, s) == j \in Workers /\ worker[j].at = s
MoveTo(j, s) == worker' = [worker EXCEPT ![j].at = s]

CInit ==
  /\ Init
  /\ sched = "top"
  /\ todo = {}
  /\ handed = NoJob
  /\ activeApps = {}
  /\ worker = [j \in JobIds |-> NoJob]
  /\ draining = FALSE
  /\ restarts = 0

-----------------------------------------------------------------------------
(* schedule                                                                *)

(* The select on ctx.Done, then apps.List, one query.                      *)
ListApps ==
  /\ sched = "top" /\ ~draining
  /\ sched' = "visit"
  /\ todo' = {a \in Apps : apps[a] = "enabled"}
  /\ UNCHANGED <<vars, handed, activeApps, worker, draining, restarts>>

Visiting(a) == sched = "visit" /\ handed = NoJob /\ pc[Sched] = "idle" /\ a \in todo

(* The application has a deploy, or DequeueNext returns no job or an error.*)
Skip(a) ==
  /\ Visiting(a)
  /\ a \in activeApps \/ PendingOf(a) = {} \/ DbMayFail
  /\ todo' = todo \ {a}
  /\ UNCHANGED <<vars, sched, handed, activeApps, worker, draining, restarts>>

(* Variant: the scheduler does not look at activeApps.                     *)
TakeWhileBusy(a, j) ==
  /\ Visiting(a)
  /\ DequeueNext(Sched, a, j)
  /\ todo' = todo \ {a}
  /\ handed' = j
  /\ UNCHANGED <<sched, activeApps, worker, draining, restarts>>

(* The application is free and has a pending job.                          *)
Take(a, j) ==
  /\ Visiting(a)
  /\ a \notin activeApps
  /\ DequeueNext(Sched, a, j)
  /\ todo' = todo \ {a}
  /\ handed' = j
  /\ UNCHANGED <<sched, activeApps, worker, draining, restarts>>

(* DequeueNext has returned: mark the application and start the goroutine. *)
Launch ==
  /\ handed # NoJob /\ pc[Sched] = "idle"
  /\ activeApps' = activeApps \cup {jobs[handed].app}
  /\ worker' = [worker EXCEPT ![handed] = Worker(jobs[handed].app, "run")]
  /\ handed' = NoJob
  /\ UNCHANGED <<vars, sched, todo, draining, restarts>>

EndPass ==
  /\ sched = "visit" /\ todo = {} /\ handed = NoJob
  /\ sched' = "top"
  /\ UNCHANGED <<vars, todo, handed, activeApps, worker, draining, restarts>>

-----------------------------------------------------------------------------
(* runDeploy                                                               *)

(* The runner returns, with an error or without.  It may have missed a     *)
(* cancel request that came after its last checkpoint.                     *)
EndRun(j, ok) ==
  /\ At(j, "run")
  /\ MoveTo(j, IF ok THEN "won" ELSE "lost")
  /\ UNCHANGED <<vars, sched, todo, handed, activeApps, draining, restarts>>

(* A checkpoint saw the cancel request; the runner settles the job and     *)
(* returns an error.                                                       *)
StopAtCheckpoint(j, s) ==
  /\ At(j, "run")
  /\ MarkTerminal(j, j, s)
  /\ MoveTo(j, "lost")
  /\ UNCHANGED <<sched, todo, handed, activeApps, draining, restarts>>

(* Variant: runDeploy marks its job through an unguarded UPDATE.           *)
MarkUnguarded(j) ==
  /\ At(j, "won") \/ At(j, "lost")
  /\ pc[j] = "idle"
  /\ MarkDoneUnguarded(j, j, worker[j].at = "won")
  /\ MoveTo(j, "log")
  /\ UNCHANGED <<sched, todo, handed, activeApps, draining, restarts>>

Mark(j) ==
  /\ At(j, "won") \/ At(j, "lost")
  /\ MarkDone(j, j, worker[j].at = "won") \/ WriteFail(j)
  /\ MoveTo(j, "log")
  /\ UNCHANGED <<sched, todo, handed, activeApps, draining, restarts>>

(* captureJobLog: nothing to save, or SaveJobLog.                          *)
CaptureLog(j) ==
  /\ At(j, "log") /\ pc[j] = "idle"
  /\ SaveJobLog(j) \/ UNCHANGED vars
  /\ MoveTo(j, "exit")
  /\ UNCHANGED <<sched, todo, handed, activeApps, draining, restarts>>

(* Variant: the application stays marked when the deploy is over.          *)
ExitStaysActive(j) ==
  /\ At(j, "exit") /\ pc[j] = "idle"
  /\ worker' = [worker EXCEPT ![j] = NoJob]
  /\ UNCHANGED <<vars, sched, todo, handed, activeApps, draining, restarts>>

(* The deferred delete from activeApps.                                    *)
Exit(j) ==
  /\ At(j, "exit") /\ pc[j] = "idle"
  /\ worker' = [worker EXCEPT ![j] = NoJob]
  /\ activeApps' = activeApps \ {worker[j].app}
  /\ UNCHANGED <<vars, sched, todo, handed, draining, restarts>>

-----------------------------------------------------------------------------
(* The process.                                                            *)

Shutdown ==
  /\ ~draining /\ restarts < MaxRestarts
  /\ draining' = TRUE
  /\ UNCHANGED <<vars, sched, todo, handed, activeApps, worker, restarts>>

StopScheduling ==
  /\ sched = "top" /\ draining
  /\ sched' = "stopped"
  /\ UNCHANGED <<vars, todo, handed, activeApps, worker, draining, restarts>>

(* coord.Wait has returned.                                                *)
Exited == sched = "stopped" /\ Workers = {}

(* The service is started after an orderly exit, or after the process died *)
(* at any point.                                                           *)

StartAgain ==
  /\ restarts < MaxRestarts
  /\ Restart
  /\ sched' = "top"
  /\ todo' = {}
  /\ handed' = NoJob
  /\ activeApps' = {}
  /\ worker' = [j \in JobIds |-> NoJob]
  /\ draining' = FALSE
  /\ restarts' = restarts + 1

-----------------------------------------------------------------------------

Schedule ==
  \/ ListApps
  \/ \E a \in Apps : Skip(a) \/ \E j \in JobIds : Take(a, j)
  \/ Launch \/ EndPass \/ StopScheduling

RunDeploy(j) ==
  \/ \E ok \in BOOLEAN : EndRun(j, ok)
  \/ \E s \in Terminal : StopAtCheckpoint(j, s)
  \/ Mark(j) \/ CaptureLog(j) \/ Exit(j)

Http ==
  /\ \/ \E c \in Clients : Request(c) \/ Control(c)
     \/ \E a \in Apps : SetEnabled(a)
  /\ UNCHANGED coordVars

Drop(c) == Invalidate(c) /\ UNCHANGED coordVars

CNext ==
  \/ Schedule
  \/ \E j \in JobIds : RunDeploy(j)
  \/ Http
  \/ \E c \in Callers : Drop(c)
  \/ Shutdown \/ StartAgain

CSpec == CInit /\ [][CNext]_allVars

(***************************************************************************)
(* Goroutines are scheduled; a deploy ends (its downloads and its          *)
(* systemctl calls return); and sync.Mutex hands activeCacheMu to whoever  *)
(* has waited longest (its starvation mode), hence strong fairness of      *)
(* Drop.  Nothing obliges anyone to start a stopped service again.         *)
(***************************************************************************)
Fairness ==
  /\ WF_allVars(Schedule)
  /\ \A j \in JobIds : WF_allVars(RunDeploy(j))
  /\ \A c \in Callers : SF_allVars(Drop(c))
  /\ \A c \in Clients : WF_allVars((LookupQuery(c) \/ LookupPublish(c)) /\ UNCHANGED coordVars)

LiveSpec == CSpec /\ Fairness

-----------------------------------------------------------------------------

CTypeOK ==
  /\ sched \in {"top", "visit", "stopped"}
  /\ todo \subseteq Apps
  /\ handed \in JobIds \cup {NoJob}
  /\ activeApps \subseteq Apps
  /\ worker \in [JobIds -> [app : Apps, at : Stages] \cup {NoJob}]
  /\ draining \in BOOLEAN
  /\ restarts \in Nat

Deploying == Workers \cup ({handed} \ {NoJob})
AppOf(j) == IF j \in Workers THEN worker[j].app ELSE jobs[j].app

(* One deploy at a time per application (docs/llms/01-overview.md:39,      *)
(* README.md:14), counting the one the scheduler is about to launch.       *)
OneDeployPerApp ==
  \A i, j \in Deploying : AppOf(i) = AppOf(j) => i = j

IsRunning(j) == j \in Rows /\ jobs[j].status \in Running

(* While a deploy may still touch the host its row is there and says so:   *)
(* nobody deletes the application or ends the job behind its back.         *)
DeployHasRunningRow ==
  \A j \in JobIds : At(j, "run") \/ handed = j => IsRunning(j)

(* A row that says it is running has a goroutine behind it, unless a       *)
(* statement failed: nothing is left running by a crash, a shutdown or a   *)
(* delete, where it would block its tag for good.                          *)
RunningRowHasDeploy ==
  ~DbMayFail =>
    \A j \in JobIds : IsRunning(j) =>
      j = handed \/ At(j, "run") \/ At(j, "won") \/ At(j, "lost")

(* Why these hold: the scheduler alone dequeues, for applications that     *)
(* have no deploy, and only a worker ends the job it works on.             *)
WorkersInv ==
  /\ \A j \in Workers :
       /\ worker[j].app \in activeApps
       /\ j \in Issued
       /\ j \in Rows => jobs[j].app = worker[j].app /\ jobs[j].status # "pending"
       /\ At(j, "run") => IsRunning(j)
  /\ \A i, j \in Workers : worker[i].app = worker[j].app => i = j

HandedInv ==
  handed # NoJob =>
    /\ handed \notin Workers
    /\ IsRunning(handed)
    /\ jobs[handed].app \notin activeApps

CoordInv == WorkersInv /\ HandedInv /\ RunningRowHasDeploy

(* The coordinator, the handlers and the process use the queue only in the *)
(* ways DeployQueue allows, so what holds of the queue holds of the        *)
(* running service.                                                        *)
ImplementsQueue == Spec

IsActive(j) == j \in Rows /\ jobs[j].status \in Active
SwitchedOff(j) == j \in Rows /\ jobs[j].status = "pending" /\ apps[jobs[j].app] # "enabled"

(* Every job is settled in the end, unless its application is switched off *)
(* while it waits or the service is stopped: no trigger is dropped and no  *)
(* deploy stays open, not even by a crash or by a stop and a later start.  *)
JobsAreSettled == \A j \in JobIds : IsActive(j) ~> (~IsActive(j) \/ SwitchedOff(j) \/ Exited)

=============================================================================
