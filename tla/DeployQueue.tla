----------------------------- MODULE DeployQueue -----------------------------
(***************************************************************************)
(* The deploy queue: the deploy_jobs table, the applications its rows      *)
(* belong to, and the in-memory snapshot of active jobs that answers       *)
(* IsDuplicate (internal/store/queue.go, internal/admission,               *)
(* internal/cancel, AppStore.Delete and AppStore.SetEnabled).              *)
(*                                                                         *)
(* Every goroutine that touches the queue is a caller.  The pool holds one *)
(* database connection, so a statement, or a transaction from Begin to     *)
(* Commit, is one step; what a goroutine does between two statements       *)
(* interleaves with everything else.  In particular a write and the        *)
(* InvalidateActiveJobsCache call that follows it are two steps, and so    *)
(* are the query that rebuilds the snapshot and the Store that publishes   *)
(* it.                                                                     *)
(***************************************************************************)
EXTENDS Integers, Sequences, FiniteSets

CONSTANTS
  Apps,        \* Registered applications.
  Tags,        \* Release tags that validateTag accepts.
  JobIds,      \* Job identities; their number bounds the jobs ever inserted.
  Callers,     \* Goroutines: request handlers, the scheduler, deploys.
  MaxPending,  \* DEPLOY_QUEUE_MAX.
  DbMayFail,   \* Whether a statement may return an error.
  NoJob,       \* The value of jobs[j] when the table has no row j.
  NoCache,     \* A nil snapshot pointer.
  Free         \* The value of cacheMu when the mutex is unlocked.

ASSUME MaxPendingAssumption == MaxPending \in Nat \ {0}
ASSUME DbMayFailAssumption == DbMayFail \in BOOLEAN
ASSUME FiniteCallersAssumption == IsFiniteSet(Callers)

VARIABLES
  apps,      \* The apps table: each application's state.
  jobs,      \* The deploy_jobs table, by job id.
  issued,    \* Ids ever inserted, in the order of their INSERTs.
  cache,     \* activeCache: the published snapshot of active keys.
  cacheMu,   \* activeCacheMu: the caller that holds it.
  snapshot,  \* The keys the holder of cacheMu has read, before it publishes.
  pc,        \* Where each caller is.
  op         \* The admission each caller is working on.

vars == <<apps, jobs, issued, cache, cacheMu, snapshot, pc, op>>

Running  == {"in_progress", "cancel_requested"}
Active   == Running \cup {"pending"}
Terminal == {"succeeded", "failed", "canceled"}

AppStates == {"enabled", "disabled", "deleted"}
Row == [app : Apps, tag : Tags, status : Active \cup Terminal, seq : Nat,
        retry : BOOLEAN]   \* retry: retry_of_job_id is set
Keys == Apps \X Tags
Ops  == [app : Apps, tag : Tags, orig : JobIds \cup {NoJob}]   \* orig: the job to retry

ASSUME SentinelAssumption ==
  /\ NoJob \notin Row \cup Ops \cup JobIds
  /\ \A K \in SUBSET Keys : NoCache # K
  /\ Free \notin Callers

Rows == {j \in JobIds : jobs[j] # NoJob}
Issued == {issued[n] : n \in DOMAIN issued}
Key(j) == <<jobs[j].app, jobs[j].tag>>
ActiveRows == {j \in Rows : jobs[j].status \in Active}
ActiveKeys == {Key(j) : j \in ActiveRows}
RowsOf(a) == {j \in Rows : jobs[j].app = a}
PendingOf(a) == {j \in RowsOf(a) : jobs[j].status = "pending"}
RunningOf(a) == {j \in RowsOf(a) : jobs[j].status \in Running}

Init ==
  /\ apps \in [Apps -> {"enabled", "disabled"}]
  /\ jobs = [j \in JobIds |-> NoJob]
  /\ issued = <<>>
  /\ cache = NoCache
  /\ cacheMu = Free
  /\ snapshot = NoCache
  /\ pc = [c \in Callers |-> "idle"]
  /\ op = [c \in Callers |-> NoJob]

Goto(c, l) == pc' = [pc EXCEPT ![c] = l]
Return(c) == Goto(c, "idle") /\ op' = [op EXCEPT ![c] = NoJob]

-----------------------------------------------------------------------------
(* Requests that add a job.                                                *)

Submit(c, o, l) ==
  /\ pc[c] = "idle"
  /\ op' = [op EXCEPT ![c] = o]
  /\ Goto(c, l)
  /\ UNCHANGED <<apps, jobs, issued, cache, cacheMu, snapshot>>

(* POST /webhook: the bearer token resolves to an enabled application.     *)
Admit(c, a, t) ==
  /\ apps[a] = "enabled"
  /\ Submit(c, [app |-> a, tag |-> t, orig |-> NoJob], "admit")

(* POST /admin/api/apps/:id/deploy: the application is read and found      *)
(* enabled.                                                                *)
ManualDeploy(c, a, t) ==
  /\ apps[a] = "enabled"
  /\ Submit(c, [app |-> a, tag |-> t, orig |-> NoJob], "check")

(* Retry of job j: its row is read, then its application.  A row is only   *)
(* ever deleted with its application, so a row read before an enabled      *)
(* application is still there when the application is read.                *)
RetryHistoryJob(c, j) ==
  /\ j \in Rows
  /\ apps[jobs[j].app] = "enabled"
  /\ Submit(c, [app |-> jobs[j].app, tag |-> jobs[j].tag, orig |-> j], "orig")

(* CreateRetryJob looks the original job up once more.                     *)
CheckOriginal(c) ==
  /\ pc[c] = "orig"
  /\ \/ op[c].orig \in Rows /\ Goto(c, "check") /\ UNCHANGED op
     \/ (op[c].orig \notin Rows \/ DbMayFail) /\ Return(c)
  /\ UNCHANGED <<apps, jobs, issued, cache, cacheMu, snapshot>>

-----------------------------------------------------------------------------
(* IsDuplicate.  Admit calls it before Enqueue calls it again.             *)

LookingUp(c) == pc[c] \in {"admit", "check"}

(* What the caller does with the snapshot m it was given.                  *)
Decide(c, m) ==
  IF <<op[c].app, op[c].tag>> \in m
    THEN Return(c)
    ELSE /\ Goto(c, CASE pc[c] = "admit"        -> "check"
                      [] op[c].orig # NoJob     -> "insert"
                      [] OTHER                  -> "count")
         /\ UNCHANGED op

LookupHit(c) ==
  /\ LookingUp(c) /\ cacheMu # c
  /\ cache # NoCache
  /\ Decide(c, cache)
  /\ UNCHANGED <<apps, jobs, issued, cache, cacheMu, snapshot>>

(* The pointer was nil: take the mutex.  Whoever takes it and finds the    *)
(* pointer set meanwhile is a LookupHit.                                   *)
LookupLock(c) ==
  /\ LookingUp(c)
  /\ cache = NoCache
  /\ cacheMu = Free
  /\ cacheMu' = c
  /\ UNCHANGED <<apps, jobs, issued, cache, snapshot, pc, op>>

LookupQuery(c) ==
  /\ cacheMu = c
  /\ snapshot = NoCache
  /\ snapshot' = ActiveKeys
  /\ UNCHANGED <<apps, jobs, issued, cache, cacheMu, pc, op>>

LookupPublish(c) ==
  /\ cacheMu = c
  /\ snapshot # NoCache
  /\ cache' = snapshot
  /\ snapshot' = NoCache
  /\ cacheMu' = Free
  /\ Decide(c, snapshot)
  /\ UNCHANGED <<apps, jobs, issued>>

(* Variant: the mutex stays locked when the query fails.                   *)
LookupFailKeepsMutex(c) ==
  /\ DbMayFail
  /\ cacheMu = c
  /\ snapshot = NoCache
  /\ Return(c)
  /\ UNCHANGED <<apps, jobs, issued, cache, cacheMu, snapshot>>

LookupFail(c) ==
  /\ DbMayFail
  /\ cacheMu = c
  /\ snapshot = NoCache
  /\ cacheMu' = Free
  /\ Return(c)
  /\ UNCHANGED <<apps, jobs, issued, cache, snapshot>>

(* Variant: the writer stores nil without taking activeCacheMu.            *)
InvalidateUnlocked(c) ==
  /\ pc[c] = "invalidate"
  /\ cache' = NoCache
  /\ Return(c)
  /\ UNCHANGED <<apps, jobs, issued, cacheMu, snapshot>>

(* InvalidateActiveJobsCache, the last step of every writer.               *)
Invalidate(c) ==
  /\ pc[c] = "invalidate"
  /\ cacheMu = Free
  /\ cache' = NoCache
  /\ Return(c)
  /\ UNCHANGED <<apps, jobs, issued, cacheMu, snapshot>>

-----------------------------------------------------------------------------
(* The rest of Enqueue, EnqueueManual and CreateRetryJob.                  *)

(* Variant: the limit is compared with > instead of >=.                    *)
CountPendingOffByOne(c) ==
  /\ pc[c] = "count"
  /\ \/ Cardinality(PendingOf(op[c].app)) <= MaxPending /\ Goto(c, "insert") /\ UNCHANGED op
     \/ (Cardinality(PendingOf(op[c].app)) > MaxPending \/ DbMayFail) /\ Return(c)
  /\ UNCHANGED <<apps, jobs, issued, cache, cacheMu, snapshot>>

CountPending(c) ==
  /\ pc[c] = "count"
  /\ \/ Cardinality(PendingOf(op[c].app)) < MaxPending /\ Goto(c, "insert") /\ UNCHANGED op
     \/ (Cardinality(PendingOf(op[c].app)) >= MaxPending \/ DbMayFail) /\ Return(c)
  /\ UNCHANGED <<apps, jobs, issued, cache, cacheMu, snapshot>>

(* Variant: COUNT of the rows instead of MAX of their seq.                 *)
NextSeqByCount(n) == n = Cardinality(Rows) + 1

(* COALESCE(MAX(seq), 0) + 1 over the whole table.                         *)
NextSeq(n) ==
  \/ Rows = {} /\ n = 1
  \/ /\ \E j \in Rows : n = jobs[j].seq + 1
     /\ \A j \in Rows : jobs[j].seq < n

(* The statement committed; the snapshot is not dropped yet.               *)
Wrote(c) ==
  /\ Goto(c, "invalidate")
  /\ op' = [op EXCEPT ![c] = NoJob]
  /\ UNCHANGED <<cache, cacheMu, snapshot>>

(* Variant: without the partial UNIQUE index.                              *)
InsertRowNoIndex(c, j, n) ==
  /\ pc[c] = "insert"
  /\ j \notin Issued
  /\ NextSeq(n)
  /\ jobs' = [jobs EXCEPT ![j] = [app |-> op[c].app, tag |-> op[c].tag,
                                  status |-> "pending", seq |-> n,
                                  retry |-> op[c].orig # NoJob]]
  /\ issued' = Append(issued, j)
  /\ Wrote(c)
  /\ UNCHANGED apps

InsertRow(c, j, n) ==
  /\ pc[c] = "insert"
  /\ <<op[c].app, op[c].tag>> \notin ActiveKeys   \* idx_deploy_jobs_active_unique
  /\ j \notin Issued
  /\ NextSeq(n)
  /\ jobs' = [jobs EXCEPT ![j] = [app |-> op[c].app, tag |-> op[c].tag,
                                  status |-> "pending", seq |-> n,
                                  retry |-> op[c].orig # NoJob]]
  /\ issued' = Append(issued, j)
  /\ Wrote(c)
  /\ UNCHANGED apps

(* The INSERT fails: on the UNIQUE index, or for a reason of the database. *)
InsertFail(c) ==
  /\ pc[c] = "insert"
  /\ DbMayFail \/ <<op[c].app, op[c].tag>> \in ActiveKeys
  /\ Wrote(c)
  /\ UNCHANGED <<apps, jobs, issued>>

Insert(c) == \/ \E j \in JobIds, n \in 1..(Len(issued) + 1) : InsertRow(c, j, n)
             \/ InsertFail(c)

-----------------------------------------------------------------------------
(* Writers that change rows in one statement or transaction.               *)

Update(S, s) == [j \in JobIds |-> IF j \in S THEN [jobs[j] EXCEPT !.status = s]
                                             ELSE jobs[j]]

Write(c) == pc[c] = "idle" /\ Wrote(c) /\ UNCHANGED issued

(* A statement that fails changes no row; most writers drop the snapshot   *)
(* all the same.                                                           *)
WriteFail(c) == DbMayFail /\ Write(c) /\ UNCHANGED <<apps, jobs>>

(* DequeueNext: the pending job of a with the smallest seq starts.         *)
Oldest(a, j) == j \in PendingOf(a) /\ \A k \in PendingOf(a) : jobs[j].seq <= jobs[k].seq

DequeueNext(c, a, j) ==
  /\ Oldest(a, j)
  /\ jobs' = Update({j}, "in_progress")
  /\ Write(c)
  /\ UNCHANGED apps

(* Variant: no status filter in the UPDATE.                                *)
MarkDoneUnguarded(c, j, ok) ==
  /\ j \in Rows
  /\ jobs' = Update({j}, IF ok THEN "succeeded" ELSE "failed")
  /\ Write(c)
  /\ UNCHANGED apps

(* MarkDone: only a running job changes; the snapshot is dropped anyway.   *)
MarkDone(c, j, ok) ==
  /\ j \in Issued
  /\ jobs' = Update({j} \cap {k \in Rows : jobs[k].status \in Running},
                    IF ok THEN "succeeded" ELSE "failed")
  /\ Write(c)
  /\ UNCHANGED apps

(* SaveJobLog touches no column modelled here, and drops the snapshot.     *)
SaveJobLog(c) == Write(c) /\ UNCHANGED <<apps, jobs>>

(* CancelService.RequestJobCancel and RequestAppCancel, on the jobs of S.  *)
CancelAll(S) ==
  jobs' = [j \in JobIds |->
             IF j \in S /\ jobs[j].status = "pending"
               THEN [jobs[j] EXCEPT !.status = "canceled"]
             ELSE IF j \in S /\ jobs[j].status = "in_progress"
               THEN [jobs[j] EXCEPT !.status = "cancel_requested"]
             ELSE jobs[j]]

RequestJobCancel(c, j) ==
  /\ j \in Rows
  /\ CancelAll({j})
  /\ Write(c)
  /\ UNCHANGED apps

(* The application was there when the handler looked; it may be gone.      *)
RequestAppCancel(c, a) ==
  /\ CancelAll(RowsOf(a))
  /\ Write(c)
  /\ UNCHANGED apps

(* CancelService.markTerminal: a checkpoint of the deploy that saw the     *)
(* cancel request settles the job.                                         *)
MarkTerminal(c, j, s) ==
  /\ j \in Rows /\ jobs[j].status = "cancel_requested"
  /\ s \in {"canceled", "failed"}
  /\ jobs' = Update({j}, s)
  /\ Write(c)
  /\ UNCHANGED apps

(* Variant: a cancel request no longer counts as an active deploy.         *)
DeleteAppIgnoringCancel(c, a) ==
  /\ apps[a] # "deleted"
  /\ {j \in RowsOf(a) : jobs[j].status = "in_progress"} = {}
  /\ apps' = [apps EXCEPT ![a] = "deleted"]
  /\ jobs' = [j \in JobIds |-> IF j \in RowsOf(a) THEN NoJob ELSE jobs[j]]
  /\ Write(c)

(* AppStore.Delete: refused while a job of a runs; otherwise its rows go   *)
(* with it, and the hook drops the snapshot after the commit.              *)
DeleteApp(c, a) ==
  /\ apps[a] # "deleted"
  /\ RunningOf(a) = {}
  /\ apps' = [apps EXCEPT ![a] = "deleted"]
  /\ jobs' = [j \in JobIds |-> IF j \in RowsOf(a) THEN NoJob ELSE jobs[j]]
  /\ Write(c)

(* AppStore.SetEnabled; no row of deploy_jobs is involved.                 *)
SetEnabled(a) ==
  /\ apps[a] # "deleted"
  /\ apps' = [apps EXCEPT ![a] = IF @ = "enabled" THEN "disabled" ELSE "enabled"]
  /\ UNCHANGED <<jobs, issued, cache, cacheMu, snapshot, pc, op>>

(* Variant: cancel requests of the dead process are left alone.            *)
RecoverStaleInProgressOnly ==
  \/ jobs' = Update({j \in Rows : jobs[j].status = "in_progress"}, "failed")
  \/ DbMayFail /\ UNCHANGED jobs

(* RecoverStale, and main, which goes on when it fails.                    *)
RecoverStale ==
  \/ jobs' = Update({j \in Rows : jobs[j].status \in Running}, "failed")
  \/ DbMayFail /\ UNCHANGED jobs

(* The process dies and starts again: the table is all that is left, and   *)
(* main recovers it before it starts a goroutine.                          *)
Restart ==
  /\ RecoverStale
  /\ cache' = NoCache
  /\ cacheMu' = Free
  /\ snapshot' = NoCache
  /\ pc' = [c \in Callers |-> "idle"]
  /\ op' = [c \in Callers |-> NoJob]
  /\ UNCHANGED <<apps, issued>>

-----------------------------------------------------------------------------

Request(c) ==
  \/ \E a \in Apps, t \in Tags : Admit(c, a, t) \/ ManualDeploy(c, a, t)
  \/ \E j \in JobIds : RetryHistoryJob(c, j)
  \/ CheckOriginal(c)
  \/ LookupHit(c) \/ LookupLock(c) \/ LookupQuery(c) \/ LookupPublish(c) \/ LookupFail(c)
  \/ CountPending(c) \/ Insert(c)

Control(c) ==
  \/ \E j \in JobIds : RequestJobCancel(c, j)
  \/ \E a \in Apps : RequestAppCancel(c, a) \/ DeleteApp(c, a)

Deploy(c) ==
  \/ \E a \in Apps, j \in JobIds : DequeueNext(c, a, j)
  \/ \E j \in JobIds, ok \in BOOLEAN : MarkDone(c, j, ok)
  \/ \E j \in JobIds, s \in Terminal : MarkTerminal(c, j, s)
  \/ SaveJobLog(c) \/ WriteFail(c)

Next ==
  \/ \E c \in Callers : Request(c) \/ Control(c) \/ Deploy(c) \/ Invalidate(c)
  \/ \E a \in Apps : SetEnabled(a)
  \/ Restart

Spec == Init /\ [][Next]_vars

-----------------------------------------------------------------------------
(* What the queue guarantees.                                              *)

Places == {"idle", "admit", "orig", "check", "count", "insert", "invalidate"}
Admitting == Places \ {"idle", "invalidate"}

TypeOK ==
  /\ apps \in [Apps -> AppStates]
  /\ jobs \in [JobIds -> Row \cup {NoJob}]
  /\ issued \in Seq(JobIds)
  /\ cache = NoCache \/ cache \in SUBSET Keys
  /\ cacheMu \in Callers \cup {Free}
  /\ snapshot = NoCache \/ snapshot \in SUBSET Keys
  /\ pc \in [Callers -> Places]
  /\ op \in [Callers -> Ops \cup {NoJob}]
  /\ \A c \in Callers : pc[c] \in Admitting => op[c] # NoJob
  /\ \A c \in Callers : cacheMu = c => LookingUp(c)
  /\ snapshot # NoCache => cacheMu # Free

(* One active job per application and tag, whatever raced: the comment at  *)
(* queue.go:201-206.                                                       *)
UniqueActive ==
  \A i, j \in ActiveRows : Key(i) = Key(j) => i = j

Stale(s) == s # NoCache /\ s # ActiveKeys

(* A snapshot that is published or about to be, and that differs from the  *)
(* table, is about to be dropped: some writer has not made its             *)
(* InvalidateActiveJobsCache call yet.  So no "duplicate" answer outlives  *)
(* the write that falsified it, and a rebuild never publishes over an      *)
(* invalidation (queue.go:81-85).                                          *)
CacheCoherent ==
  Stale(cache) \/ Stale(snapshot) => \E c \in Callers : pc[c] = "invalidate"

(* seq orders the rows as they were inserted, although MAX(seq) + 1 hands  *)
(* out the numbers of deleted rows again.  DequeueNext is first in, first  *)
(* out because of it.                                                      *)
SeqFollowsArrival ==
  \A m, n \in DOMAIN issued :
    m < n /\ {issued[m], issued[n]} \subseteq Rows => jobs[issued[m]].seq < jobs[issued[n]].seq

(* The jobs Enqueue and EnqueueManual queue exceed the limit by no more    *)
(* than the requests that raced between PendingCount and INSERT.           *)
Overshoot ==
  \A a \in Apps :
    Cardinality({j \in PendingOf(a) : ~jobs[j].retry})
      <= MaxPending + Cardinality(Callers) - 1

(* DEPLOY_QUEUE_MAX as README.md:193 documents it.                         *)
QueueBound == \A a \in Apps : Cardinality(PendingOf(a)) <= MaxPending

Life == [j \in JobIds |-> IF j \in Rows THEN jobs[j].status
                          ELSE IF j \in Issued THEN "removed" ELSE "none"]

Lifecycle == INSTANCE JobLifecycle WITH Jobs <- JobIds, life <- Life

(* Every job lives through the stages of JobLifecycle.                     *)
ImplementsLifecycle == Lifecycle!Spec

=============================================================================
