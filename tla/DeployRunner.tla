---------------------------- MODULE DeployRunner ----------------------------
(***************************************************************************)
(* DeployArtifact (internal/deploy/deploy.go): the deploys of one          *)
(* application, one after the other, on the host they change.  Each file   *)
(* operation, systemctl call and database statement is a step; between two *)
(* steps a cancel request may arrive, an operator may start or stop the    *)
(* service, and the process may die and start again.                       *)
(*                                                                         *)
(* Binaries are identified by the deploy that installed them: deploy n     *)
(* installs release n, and 0 is the binary the operator installed.         *)
(***************************************************************************)
EXTENDS Integers

CONSTANTS
  MaxDeploys,  \* Bound: deploys started.
  Attempts,    \* Health check attempts; 5 in the code.
  Faults,      \* What may fail: "db", "file" and "unit" (systemctl).
  None,        \* No such file, or no process.
  Partial,     \* A file that is the beginning of a release.
  Foreign      \* A whole file that is not an ELF executable.

ASSUME MaxDeploysAssumption == MaxDeploys \in Nat
ASSUME AttemptsAssumption == Attempts \in Nat \ {0}
ASSUME FaultsAssumption == Faults \subseteq {"db", "file", "unit"}
ASSUME ContentsAssumption ==
  /\ {None, Partial, Foreign} \cap Nat = {}
  /\ None # Partial /\ None # Foreign /\ Partial # Foreign

VARIABLES
  n,         \* The number of the current deploy, or of the last one.
  status,    \* The status of its row in deploy_jobs.
  disk,      \* BinaryPath, BinaryPath.bak and BinaryPath.tmp.
  service,   \* What the unit was started with, or None when it is stopped.
  pc,        \* Where DeployArtifact is.
  made,      \* backupCreated.
  attempt,   \* Health check attempts made.
  verdict,   \* What DeployArtifact returned.
  tracker,   \* The application's entry in the ProgressTracker.
  before,    \* History: disk.bin when the deploy started.
  askedAt,   \* History: where the deploy was when its cancel request came.
  unseen     \* History: os.Stat did not see the binary that was there.

job == <<n, status, before, askedAt, unseen>>
host == <<disk, service>>
run == <<pc, made, attempt, verdict, tracker>>
vars == <<job, host, run>>

Init ==
  /\ n = 0
  /\ status = "none"
  /\ disk \in [bin : {0, None}, bak : {None}, tmp : {None}]
  /\ service \in {disk.bin, None}
  /\ pc = "idle" /\ made = FALSE /\ attempt = 0
  /\ verdict = "none" /\ tracker = "none"
  /\ before = None /\ askedAt = "never" /\ unseen = FALSE

-----------------------------------------------------------------------------

Running == {"in_progress", "cancel_requested"}

Goto(l) == pc' = l /\ UNCHANGED <<made, attempt, verdict, tracker>>

(* Only a canceled deploy returns without tracker.Finish or tracker.Fail.  *)
Return(v) ==
  /\ pc' = "return"
  /\ verdict' = v
  /\ tracker' = CASE v = "ok" -> "succeeded" [] v = "canceled" -> tracker [] OTHER -> "failed"
  /\ UNCHANGED <<made, attempt>>

Renamed(from, to) ==
  /\ disk[from] # None
  /\ disk' = [disk EXCEPT ![to] = disk[from], ![from] = None]
RenameFails(from) ==
  /\ disk[from] = None \/ "file" \in Faults
  /\ UNCHANGED disk

Removed(file) == disk' = [disk EXCEPT ![file] = None]
RemoveFails == "file" \in Faults /\ UNCHANGED disk

(* runSystemctl("restart").                                                *)
Restarted == disk.bin # None /\ service' = disk.bin
RestartFails ==
  \/ "unit" \in Faults /\ service' \in {service, disk.bin, None}
  \/ disk.bin = None /\ service' = None

-----------------------------------------------------------------------------
(* The deploy.                                                             *)

(* The coordinator starts the runner on a job it has dequeued.             *)
Start ==
  /\ pc = "idle" /\ n < MaxDeploys
  /\ n' = n + 1
  /\ status' = "in_progress"
  /\ before' = disk.bin /\ askedAt' = "never" /\ unseen' = FALSE
  /\ pc' = "resolve" /\ made' = FALSE /\ attempt' = 0
  /\ verdict' = "none" /\ tracker' = "active"
  /\ UNCHANGED host

(* MkdirAll and resolveArtifactDownload; a cancel request here is an error *)
(* of the resolver like any other.                                         *)
Resolve ==
  /\ pc = "resolve"
  /\ Goto("download") \/ Return("error")
  /\ UNCHANGED <<job, host>>

(* The response arrives and the temporary file is created, or the deploy   *)
(* ends here; only a cancel request makes the watcher end it.              *)
Download ==
  /\ pc = "download"
  /\ \/ disk' = [disk EXCEPT !.tmp = Partial] /\ Goto("copying")
     \/ UNCHANGED disk /\ Return("error")
     \/ UNCHANGED disk /\ status = "cancel_requested" /\ Goto("abort")
  /\ UNCHANGED <<job, service>>

(* Variant: a short body is not an error.                                  *)
CopyUnchecked ==
  /\ pc = "copying"
  /\ \/ \E f \in {n, Foreign, Partial} : disk' = [disk EXCEPT !.tmp = f] /\ Goto("downloaded")
     \/ (Removed("tmp") \/ RemoveFails) /\ Return("error")
     \/ (Removed("tmp") \/ RemoveFails) /\ status = "cancel_requested" /\ Goto("abort")
  /\ UNCHANGED <<job, service>>

(* io.Copy and the checks after it; a rejected file is removed, if it can  *)
(* be.  The response carries a length or marks its end, as GitHub's do: a  *)
(* body that is cut short is an error.                                     *)
Copy ==
  /\ pc = "copying"
  /\ \/ \E f \in {n, Foreign} : disk' = [disk EXCEPT !.tmp = f] /\ Goto("downloaded")
     \/ (Removed("tmp") \/ RemoveFails) /\ Return("error")
     \/ (Removed("tmp") \/ RemoveFails) /\ status = "cancel_requested" /\ Goto("abort")
  /\ UNCHANGED <<job, service>>

(* finishCanceledCleanup's first checkpoint marks nothing.                 *)
Abort ==
  /\ pc = "abort"
  /\ Goto("cleanup") \/ ("db" \in Faults /\ Return("error"))
  /\ UNCHANGED <<job, host>>

(* Where each checkpoint leads without a cancel request, and with one.     *)
Onward == [downloaded |-> "validating", validating |-> "validate", backing_up |-> "backup",
           backup_complete |-> "install", installing |-> "restart",
           restarting |-> "healthcheck", healthcheck |-> "probe"]
Unwind == [downloaded |-> "cleanup", validating |-> "cleanup", backing_up |-> "cleanup",
           backup_complete |-> "restore", installing |-> "undo",
           restarting |-> "undo", healthcheck |-> "undo"]

(* Variant: no checkpoint in the health check loop.                        *)
CheckpointSkipsHealthCheck ==
  /\ pc \in DOMAIN Onward
  /\ IF status = "cancel_requested" /\ pc # "healthcheck" THEN Goto(Unwind[pc]) ELSE Goto(Onward[pc])
  /\ UNCHANGED <<job, host>>

Checkpoint ==
  /\ pc \in DOMAIN Onward
  /\ \/ status # "cancel_requested" /\ Goto(Onward[pc])
     \/ status = "cancel_requested" /\ Goto(Unwind[pc])
     \/ "db" \in Faults /\ Return("error")
  /\ UNCHANGED <<job, host>>

(* validateDownloadedArtifact and chmod.  The magic bytes of a partial     *)
(* release are right.                                                      *)
Validate ==
  /\ pc = "validate"
  /\ \/ disk.tmp # Foreign /\ Goto("backing_up")
     \/ (disk.tmp = Foreign \/ "file" \in Faults) /\ Return("error")
  /\ UNCHANGED <<job, host>>

(* Variant: an older backup is kept.                                       *)
BackupOnce ==
  /\ pc = "backup"
  /\ \/ /\ disk.bin = None \/ disk.bak # None
        /\ UNCHANGED disk /\ Goto("backup_complete")
     \/ /\ disk.bin # None /\ disk.bak = None
        /\ Renamed("bin", "bak")
        /\ pc' = "backup_complete" /\ made' = TRUE
        /\ UNCHANGED <<attempt, verdict, tracker>>
  /\ UNCHANGED <<job, service>>

(* Any error of os.Stat is taken for "no binary": an error other than that *)
(* there is none leaves it in place, without a backup, for the install to  *)
(* write over.                                                             *)
Backup ==
  /\ pc = "backup"
  /\ \/ /\ disk.bin = None \/ "file" \in Faults
        /\ UNCHANGED disk /\ Goto("backup_complete")
        /\ unseen' = (disk.bin # None)
     \/ /\ Renamed("bin", "bak")
        /\ pc' = "backup_complete" /\ made' = TRUE
        /\ UNCHANGED <<attempt, verdict, tracker, unseen>>
     \/ disk.bin # None /\ RenameFails("bin") /\ Return("error") /\ UNCHANGED unseen
  /\ UNCHANGED <<n, status, before, askedAt, service>>

Install ==
  /\ pc = "install"
  /\ \/ Renamed("tmp", "bin") /\ Goto("installing")
     \/ RenameFails("tmp") /\ made /\ Goto("reinstall")
     \/ RenameFails("tmp") /\ ~made /\ Return("error")
  /\ UNCHANGED <<job, service>>

(* The new binary could not be put in place: put the old one back.         *)
Reinstall ==
  /\ pc = "reinstall"
  /\ Renamed("bak", "bin") \/ RenameFails("bak")
  /\ Return("error")
  /\ UNCHANGED <<job, service>>

(* Variant: the error of systemctl restart is not looked at.               *)
RestartUnchecked ==
  /\ pc = "restart"
  /\ Restarted \/ RestartFails
  /\ Goto("restarting")
  /\ UNCHANGED <<job, disk>>

Restart ==
  /\ pc = "restart"
  /\ \/ Restarted /\ Goto("restarting")
     \/ RestartFails /\ Return("error")
  /\ UNCHANGED <<job, disk>>

(* Variant: one attempt too many.                                          *)
ProbeOneMore ==
  /\ pc = "probe"
  /\ \/ service # None /\ Return("ok")
     \/ /\ attempt' = attempt + 1
        /\ pc' = IF attempt > Attempts THEN "rollback" ELSE "healthcheck"
        /\ UNCHANGED <<made, verdict, tracker>>
  /\ UNCHANGED <<job, host>>

(* runSystemctl("is-active") after two seconds.                            *)
Probe ==
  /\ pc = "probe"
  /\ \/ service # None /\ Return("ok")
     \/ /\ attempt' = attempt + 1
        /\ pc' = IF attempt' = Attempts THEN "rollback" ELSE "healthcheck"
        /\ UNCHANGED <<made, verdict, tracker>>
  /\ UNCHANGED <<job, host>>

Rollback ==
  /\ pc = "rollback"
  /\ \/ ~made /\ UNCHANGED disk /\ Return("unavailable")
     \/ made /\ Renamed("bak", "bin") /\ Goto("restart_previous")
     \/ made /\ RenameFails("bak") /\ Return("error")
  /\ UNCHANGED <<job, service>>

RestartPrevious ==
  /\ pc = "restart_previous"
  /\ \/ Restarted /\ Return("rolled_back")
     \/ RestartFails /\ Return("error")
  /\ UNCHANGED <<job, disk>>

-----------------------------------------------------------------------------
(* The ways out of a deploy that saw its cancel request.                   *)

(* checkpointCleanupTemp and finishCanceledCleanup.                        *)
Cleanup ==
  /\ pc = "cleanup"
  /\ \/ Removed("tmp") /\ Goto("settle_canceled")
     \/ RemoveFails /\ Goto("settle_failed")
  /\ UNCHANGED <<job, service>>

(* Variant: the backup is only put back after the install.                 *)
RestoreTempOnly ==
  /\ pc = "restore"
  /\ \/ Removed("tmp") /\ Goto("settle_canceled")
     \/ RemoveFails /\ Goto("settle_failed")
  /\ UNCHANGED <<job, service>>

(* checkpointRestoreBackup.                                                *)
Restore ==
  /\ pc = "restore"
  /\ \/ Removed("tmp") /\ Goto(IF made THEN "put_back" ELSE "settle_canceled")
     \/ RemoveFails /\ Goto("settle_failed")
  /\ UNCHANGED <<job, service>>

PutBack ==
  /\ pc = "put_back"
  /\ \/ Renamed("bak", "bin") /\ Goto("settle_canceled")
     \/ RenameFails("bak") /\ Goto("settle_failed")
  /\ UNCHANGED <<job, service>>

(* checkpointRollbackInstalled.                                            *)
Undo ==
  /\ pc = "undo"
  /\ \/ ~made /\ UNCHANGED disk /\ Goto("settle_failed")
     \/ made /\ Renamed("bak", "bin") /\ Goto("undo_restart")
     \/ made /\ RenameFails("bak") /\ Goto("settle_failed")
  /\ UNCHANGED <<job, service>>

UndoRestart ==
  /\ pc = "undo_restart"
  /\ \/ Restarted /\ Goto("settle_canceled")
     \/ RestartFails /\ Goto("settle_failed")
  /\ UNCHANGED <<job, disk>>

(* The last checkpoint: markTerminal.                                      *)
Settle ==
  /\ pc \in {"settle_canceled", "settle_failed"}
  /\ \/ /\ status' = IF status # "cancel_requested" THEN status
                     ELSE IF pc = "settle_canceled" THEN "canceled" ELSE "failed"
        /\ Return(IF pc = "settle_canceled" THEN "canceled" ELSE "error")
     \/ "db" \in Faults /\ UNCHANGED status /\ Return("error")
  /\ UNCHANGED <<n, before, askedAt, unseen, host>>

(* The deferred os.Remove of the temporary file, whose error is ignored;   *)
(* the code skips it after an install, when there is no such file.         *)
Returned ==
  /\ pc = "return"
  /\ Removed("tmp") \/ RemoveFails
  /\ Goto("mark")
  /\ UNCHANGED <<job, service>>

(* The coordinator's MarkDone.                                             *)
MarkDone ==
  /\ pc = "mark"
  /\ \/ status' = IF status \notin Running THEN status
                  ELSE IF verdict = "ok" THEN "succeeded" ELSE "failed"
     \/ "db" \in Faults /\ UNCHANGED status
  /\ Goto("idle")
  /\ UNCHANGED <<n, before, askedAt, unseen, host>>

-----------------------------------------------------------------------------
(* The world around it.                                                    *)

RequestCancel ==
  /\ status = "in_progress"
  /\ status' = "cancel_requested"
  /\ askedAt' = pc
  /\ UNCHANGED <<n, before, unseen, host, run>>

(* The operator's start, stop and restart of the unit, at any time.        *)
ControlService ==
  /\ service' \in {disk.bin, None}
  /\ UNCHANGED <<job, disk, run>>

(* The process dies; main starts it again and recovers the row.            *)
Crash ==
  /\ \/ status' = IF status \in Running THEN "failed" ELSE status
     \/ "db" \in Faults /\ UNCHANGED status
  /\ pc' = "idle" /\ made' = FALSE /\ attempt' = 0
  /\ verdict' = "none" /\ tracker' = "none"
  /\ UNCHANGED <<n, before, askedAt, unseen, host>>

-----------------------------------------------------------------------------

Next ==
  \/ Start \/ Resolve \/ Download \/ Copy \/ Abort \/ Checkpoint \/ Validate
  \/ Backup \/ Install \/ Reinstall \/ Restart \/ Probe \/ Rollback \/ RestartPrevious
  \/ Cleanup \/ Restore \/ PutBack \/ Undo \/ UndoRestart \/ Settle
  \/ Returned \/ MarkDone
  \/ RequestCancel \/ ControlService \/ Crash

Spec == Init /\ [][Next]_vars

-----------------------------------------------------------------------------

Places == DOMAIN Onward \cup
  {"idle", "resolve", "download", "copying", "abort", "validate", "backup", "install",
   "reinstall", "restart", "probe", "rollback", "restart_previous", "cleanup", "restore",
   "put_back", "undo", "undo_restart", "settle_canceled", "settle_failed", "return", "mark"}
Releases == 0..n
Contents == Releases \cup {None, Partial, Foreign}

TypeOK ==
  /\ n \in 0..MaxDeploys
  /\ status \in Running \cup {"none", "succeeded", "failed", "canceled"}
  /\ disk \in [bin : Contents, bak : Contents, tmp : Contents]
  /\ service \in Releases \cup {None}
  /\ pc \in Places
  /\ made \in BOOLEAN
  /\ attempt \in 0..Attempts
  /\ verdict \in {"none", "ok", "canceled", "rolled_back", "unavailable", "error"}
  /\ tracker \in {"none", "active", "succeeded", "failed"}
  /\ before \in Releases \cup {None}
  /\ askedAt \in Places \cup {"never"}
  /\ unseen \in BOOLEAN

(* No part of a download and nothing that is not an executable is ever at  *)
(* BinaryPath or kept as its backup, whatever a crash left behind.         *)
OnlyWholeBinaries == {disk.bin, disk.bak} \cap {Partial, Foreign} = {}

(* The binary a deploy replaces can be had back, from BinaryPath or from   *)
(* its .bak, until the next deploy starts: through failures of any step,   *)
(* cancel requests and crashes (docs/llms/01-overview.md:40).  It is lost  *)
(* in one way only: os.Stat did not see it, and the release was installed  *)
(* over it.                                                                *)
PreviousIsKept ==
  before # None => before \in {disk.bin, disk.bak} \/ (unseen /\ disk.bin = n)

(* A job that ends "canceled", and a deploy that says it rolled back, left *)
(* nothing behind: the previous binary is at its place, there is no        *)
(* temporary file, and the unit does not run the release.                  *)
UndoneMeansUndone ==
  status = "canceled" \/ verdict = "rolled_back" =>
    /\ disk.bin = before
    /\ service # n
    /\ status = "canceled" => disk.tmp = None

(* A deploy is reported successful only on an answer of the release it has *)
(* installed.                                                              *)
SuccessMeansRunning ==
  [][verdict' = "ok" /\ verdict # "ok" => service = n /\ disk.bin = n]_vars

(* A cancel request that comes before the last checkpoint keeps the job    *)
(* from succeeding; only the wait for the health check's answer and what   *)
(* follows it is too late (cancel_service.go:167, "will stop at the next   *)
(* safe checkpoint").                                                      *)
CancelIsHonoured == status = "succeeded" => askedAt \in {"never", "probe", "return", "mark"}

-----------------------------------------------------------------------------
(* Why these hold: where the files are and what the unit may run, by the   *)
(* place DeployArtifact has reached.                                       *)

(* The previous binary is still in place.                                  *)
Untouched == {"resolve", "download", "copying", "abort", "downloaded", "validating",
              "validate", "backing_up", "backup", "cleanup"}
(* It has been moved away, if there was one and it was seen.               *)
MovedAway == {"backup_complete", "install", "reinstall", "restore", "put_back"}
(* The release is in its place.                                            *)
Installed == {"installing", "restart", "restarting", "healthcheck", "probe", "rollback", "undo"}
(* The previous binary is back in its place.                               *)
PutBackAgain == {"restart_previous", "undo_restart", "settle_canceled"}
Over == {"idle", "return", "mark"}

DiskInv ==
  /\ PreviousIsKept
  /\ before # n
  /\ pc \in Untouched \cup PutBackAgain => disk.bin = before
  /\ pc \in MovedAway => disk.bin = IF made THEN None ELSE before
  /\ pc \in Installed => disk.bin = n
  /\ pc \in MovedAway \cup Installed => IF made THEN disk.bak = before ELSE before = None \/ unseen
  /\ pc \in Untouched => ~made
  /\ pc \in {"reinstall", "put_back"} => made

TempInv ==
  /\ pc \in {"downloaded", "validating", "validate"} => disk.tmp \in {n, Foreign}
  /\ pc \in {"backing_up", "backup", "backup_complete", "install"} => disk.tmp = n
  /\ pc \in Installed \cup PutBackAgain \cup {"put_back"} => disk.tmp = None

ServiceInv ==
  /\ pc \in Untouched \cup MovedAway \cup {"settle_canceled"} => service # n
  /\ pc \in {"restarting", "healthcheck", "probe"} => service \in {n, None}

VerdictInv ==
  /\ pc \notin Over => verdict = "none" /\ status \in Running
  /\ pc \in Untouched \cup MovedAway \cup {"installing", "restart", "restarting"} => attempt = 0
  /\ pc \in {"healthcheck", "probe"} => attempt < Attempts

CancelInv ==
  /\ status = "in_progress" => askedAt = "never"
  /\ pc = "probe" => askedAt \in {"never", "probe"}
  /\ verdict = "ok" /\ pc \in {"return", "mark"} => askedAt \in {"never", "probe", "return", "mark"}

IInv ==
  /\ TypeOK /\ OnlyWholeBinaries
  /\ DiskInv /\ TempInv /\ ServiceInv /\ VerdictInv
  /\ UndoneMeansUndone
  /\ CancelInv /\ CancelIsHonoured

-----------------------------------------------------------------------------
(* What the documentation says and the code does not do.                   *)

(* README.md:263: a deploy that fails its health check restores the .bak   *)
(* file.  It says there is none only if there is none.                     *)
BackupIsUsed == verdict = "unavailable" /\ pc = "return" => disk.bak = None

(* README.md:19: the binary is replaced atomically.                        *)
ReplacedAtomically == [][disk.bin # None => disk'.bin # None]_vars

(* progress_tracker.go:32: an entry is for the active deployment, or       *)
(* finished.                                                               *)
EntriesFinish == tracker = "active" => pc # "idle"

=============================================================================
