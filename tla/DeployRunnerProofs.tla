-------------------------- MODULE DeployRunnerProofs --------------------------
(***************************************************************************)
(* Proofs about DeployRunner for any number of deploys, any number of      *)
(* health check attempts and any set of faults.                            *)
(***************************************************************************)
EXTENDS DeployRunner, TLAPS

(* Renaming and removing files moves contents around and makes up none.    *)
LEMMA Files ==
  ASSUME NEW S, None \in S, disk \in [bin : S, bak : S, tmp : S],
         NEW f \in {"bin", "bak", "tmp"}, NEW g \in {"bin", "bak", "tmp"},
         Renamed(f, g) \/ RenameFails(f) \/ Removed(f) \/ RemoveFails \/ UNCHANGED disk
  PROVE  disk' \in [bin : S, bak : S, tmp : S]
  BY DEF Renamed, RenameFails, Removed, RemoveFails

(* The places where the deploy asks for a cancel request.                  *)
LEMMA Checkpoints ==
  DOMAIN Onward = {"downloaded", "validating", "backing_up", "backup_complete", "installing",
                   "restarting", "healthcheck"}
  BY DEF Onward

(* What TypeOK needs to know of the contents of files.                     *)
LEMMA ContentsType ==
  ASSUME TypeOK, OnlyWholeBinaries
  PROVE  /\ n \in Releases /\ Releases \subseteq Contents
         /\ None \in Contents /\ Partial \in Contents /\ Foreign \in Contents
         /\ disk.bin \in Releases \cup {None}
         /\ n' = n => Releases' = Releases /\ Contents' = Contents
         /\ n' = n + 1 => Releases \subseteq Releases' /\ Contents \subseteq Contents'
<1>1. n \in Nat
  BY MaxDeploysAssumption DEF TypeOK
<1>2. 0..n \subseteq 0..(n + 1)
  BY <1>1
<1>3. n \in Releases
  BY <1>1 DEF Releases
<1> QED BY <1>2, <1>3 DEF TypeOK, OnlyWholeBinaries, Releases, Contents

(* Types are kept, one step per action.                                    *)
LEMMA TypeStep == IInv /\ [Next]_vars => TypeOK'
<1> SUFFICES ASSUME IInv, [Next]_vars PROVE TypeOK'
  OBVIOUS
<1> USE DEF TypeOK, job, host, run, vars
<1>0. TypeOK /\ OnlyWholeBinaries /\ VerdictInv
  BY DEF IInv
<1>1. CASE Start
  <2>1. n' = n + 1 /\ n' \in 0..MaxDeploys /\ attempt' \in 0..Attempts
    BY <1>0, <1>1, MaxDeploysAssumption, AttemptsAssumption DEF Start
  <2>2. /\ disk' \in [bin : Contents', bak : Contents', tmp : Contents']
        /\ {service', before'} \subseteq Releases' \cup {None}
    BY <1>0, <1>1, <2>1, ContentsType DEF Start
  <2>3. pc' \in Places /\ askedAt' \in Places \cup {"never"}
    BY <1>1 DEF Start, Places
  <2> QED BY <1>1, <2>1, <2>2, <2>3 DEF Start, Running
<1>2. CASE Resolve
  BY <1>0, <1>2, ContentsType, Checkpoints DEF Resolve, Goto, Return, Places
<1>3. CASE Download
  BY <1>0, <1>3, ContentsType, Checkpoints DEF Download, Goto, Return, Places
<1>4. CASE Copy
  BY <1>0, <1>4, ContentsType, Files, Checkpoints DEF Copy, Goto, Return, Removed, RemoveFails, Places
<1>5. CASE Abort
  BY <1>0, <1>5, ContentsType, Checkpoints DEF Abort, Goto, Return, Places
<1>6. CASE Checkpoint
  BY <1>0, <1>6, ContentsType, Checkpoints DEF Checkpoint, Goto, Return, Onward, Unwind, Places
<1>7. CASE Validate
  BY <1>0, <1>7, ContentsType, Checkpoints DEF Validate, Goto, Return, Places
<1>8. CASE Backup
  <2>1. disk' \in [bin : Contents, bak : Contents, tmp : Contents]
    BY <1>0, <1>8, ContentsType, Files DEF Backup
  <2>2. pc' \in Places /\ made' \in BOOLEAN
    BY <1>0, <1>8, Checkpoints DEF Backup, Goto, Return, Places
  <2>3. tracker' \in {"none", "active", "succeeded", "failed"}
        /\ verdict' \in {"none", "ok", "canceled", "rolled_back", "unavailable", "error"}
    BY <1>0, <1>8 DEF Backup, Goto, Return
  <2> QED BY <1>0, <1>8, <2>1, <2>2, <2>3, ContentsType DEF Backup, Goto, Return
<1>9. CASE Install
  BY <1>0, <1>9, ContentsType, Files, Checkpoints DEF Install, Goto, Return, Renamed, RenameFails, Places
<1>10. CASE Reinstall
  BY <1>0, <1>10, ContentsType, Files, Checkpoints DEF Reinstall, Return, Renamed, RenameFails, Places
<1>11. CASE Restart
  BY <1>0, <1>11, ContentsType, Checkpoints DEF Restart, Goto, Return, Restarted, RestartFails, Places
<1>12. CASE Probe
  BY <1>0, <1>12, ContentsType, Checkpoints, AttemptsAssumption DEF Probe, Return, Places, VerdictInv
<1>13. CASE Rollback
  BY <1>0, <1>13, ContentsType, Files, Checkpoints DEF Rollback, Goto, Return, Renamed, RenameFails, Places
<1>14. CASE RestartPrevious
  BY <1>0, <1>14, ContentsType, Checkpoints DEF RestartPrevious, Return, Restarted, RestartFails, Places
<1>15. CASE Cleanup
  BY <1>0, <1>15, ContentsType, Files, Checkpoints DEF Cleanup, Goto, Removed, RemoveFails, Places
<1>16. CASE Restore
  BY <1>0, <1>16, ContentsType, Files, Checkpoints DEF Restore, Goto, Removed, RemoveFails, Places
<1>17. CASE PutBack
  BY <1>0, <1>17, ContentsType, Files, Checkpoints DEF PutBack, Goto, Renamed, RenameFails, Places
<1>18. CASE Undo
  BY <1>0, <1>18, ContentsType, Files, Checkpoints DEF Undo, Goto, Renamed, RenameFails, Places
<1>19. CASE UndoRestart
  BY <1>0, <1>19, ContentsType, Checkpoints DEF UndoRestart, Goto, Restarted, RestartFails, Places
<1>20. CASE Settle
  BY <1>0, <1>20, ContentsType, Checkpoints DEF Settle, Return, Places, Running
<1>21. CASE Returned
  BY <1>0, <1>21, ContentsType, Files, Checkpoints DEF Returned, Goto, Removed, RemoveFails, Places
<1>22. CASE MarkDone
  BY <1>0, <1>22, ContentsType, Checkpoints DEF MarkDone, Goto, Running, Places
<1>23. CASE RequestCancel
  BY <1>0, <1>23, ContentsType, Checkpoints DEF RequestCancel, Places, Running
<1>24. CASE ControlService
  BY <1>0, <1>24, ContentsType DEF ControlService
<1>25. CASE Crash
  <2>1. status' \in Running \cup {"none", "succeeded", "failed", "canceled"}
    BY <1>0, <1>25 DEF Crash
  <2>2. pc' \in Places /\ attempt' \in 0..Attempts
    BY <1>25, AttemptsAssumption DEF Crash, Places
  <2> QED BY <1>0, <1>25, <2>1, <2>2, ContentsType DEF Crash
<1>26. CASE UNCHANGED vars
  BY <1>0, <1>26, ContentsType
<1> QED
  BY <1>1, <1>2, <1>3, <1>4, <1>5, <1>6, <1>7, <1>8, <1>9,
     <1>10, <1>11, <1>12, <1>13, <1>14, <1>15, <1>16, <1>17,
     <1>18, <1>19, <1>20, <1>21, <1>22, <1>23, <1>24, <1>25, <1>26
  DEF Next

(* The other parts of IInv, over every action.                             *)
LEMMA PartsStep == IInv /\ [Next]_vars =>
  (OnlyWholeBinaries /\ DiskInv /\ TempInv /\ ServiceInv /\ VerdictInv
   /\ UndoneMeansUndone /\ CancelInv /\ CancelIsHonoured)'
<1> SUFFICES ASSUME IInv, [Next]_vars
             PROVE  /\ OnlyWholeBinaries' /\ DiskInv' /\ TempInv' /\ ServiceInv' /\ VerdictInv'
                    /\ UndoneMeansUndone' /\ CancelInv' /\ CancelIsHonoured'
  OBVIOUS
<1> USE MaxDeploysAssumption, AttemptsAssumption, ContentsAssumption
<1> USE DEF IInv, TypeOK, OnlyWholeBinaries, DiskInv, PreviousIsKept, TempInv, ServiceInv,
            VerdictInv, UndoneMeansUndone, CancelInv, CancelIsHonoured, Releases, Contents,
            Untouched, MovedAway, Installed, PutBackAgain, Over, Running, job, host, run, vars
<1>1. CASE Start
  <2>1. /\ n' = n + 1 /\ before' = disk.bin /\ disk' = disk /\ service' = service
        /\ pc' = "resolve" /\ status' = "in_progress" /\ askedAt' = "never"
        /\ verdict' = "none" /\ attempt' = 0 /\ ~made'
    BY <1>1 DEF Start
  <2>2. disk.bin # n' /\ service # n'
    BY <2>1
  <2> QED BY <2>1, <2>2
<1>2. CASE Resolve
  BY <1>2 DEF Resolve, Goto, Return
<1>3. CASE Download
  BY <1>3 DEF Download, Goto, Return
<1>4. CASE Copy
  BY <1>4 DEF Copy, Goto, Return, Removed, RemoveFails
<1>5. CASE Abort
  BY <1>5 DEF Abort, Goto, Return
<1>6. CASE Checkpoint
  BY <1>6 DEF Checkpoint, Goto, Return, Onward, Unwind
<1>7. CASE Validate
  BY <1>7 DEF Validate, Goto, Return
<1>8. CASE Backup
  <2>1. CASE UNCHANGED disk /\ Goto("backup_complete") /\ unseen' = (disk.bin # None)
    BY <1>8, <2>1 DEF Backup, Goto
  <2>2. CASE /\ Renamed("bin", "bak")
             /\ pc' = "backup_complete" /\ made' = TRUE
             /\ UNCHANGED <<attempt, verdict, tracker, unseen>>
    BY <1>8, <2>2 DEF Backup, Renamed
  <2>3. CASE disk.bin # None /\ RenameFails("bin") /\ Return("error") /\ UNCHANGED unseen
    BY <1>8, <2>3 DEF Backup, RenameFails, Return
  <2> QED BY <1>8, <2>1, <2>2, <2>3 DEF Backup
<1>9. CASE Install
  BY <1>9 DEF Install, Goto, Return, Renamed, RenameFails
<1>10. CASE Reinstall
  BY <1>10 DEF Reinstall, Return, Renamed, RenameFails
<1>11. CASE Restart
  BY <1>11 DEF Restart, Goto, Return, Restarted, RestartFails
<1>12. CASE Probe
  BY <1>12 DEF Probe, Return
<1>13. CASE Rollback
  BY <1>13 DEF Rollback, Goto, Return, Renamed, RenameFails
<1>14. CASE RestartPrevious
  BY <1>14 DEF RestartPrevious, Return, Restarted, RestartFails
<1>15. CASE Cleanup
  BY <1>15 DEF Cleanup, Goto, Removed, RemoveFails
<1>16. CASE Restore
  BY <1>16 DEF Restore, Goto, Removed, RemoveFails
<1>17. CASE PutBack
  BY <1>17 DEF PutBack, Goto, Renamed, RenameFails
<1>18. CASE Undo
  BY <1>18 DEF Undo, Goto, Renamed, RenameFails
<1>19. CASE UndoRestart
  BY <1>19 DEF UndoRestart, Goto, Restarted, RestartFails
<1>20. CASE Settle
  BY <1>20 DEF Settle, Return
<1>21. CASE Returned
  BY <1>21 DEF Returned, Goto, Removed, RemoveFails
<1>22. CASE MarkDone
  BY <1>22 DEF MarkDone, Goto
<1>23. CASE RequestCancel
  BY <1>23 DEF RequestCancel
<1>24. CASE ControlService
  BY <1>24 DEF ControlService
<1>25. CASE Crash
  BY <1>25 DEF Crash
<1>26. CASE UNCHANGED vars
  BY <1>26
<1> QED
  BY <1>1, <1>2, <1>3, <1>4, <1>5, <1>6, <1>7, <1>8, <1>9,
     <1>10, <1>11, <1>12, <1>13, <1>14, <1>15, <1>16, <1>17,
     <1>18, <1>19, <1>20, <1>21, <1>22, <1>23, <1>24, <1>25, <1>26
  DEF Next

(* Every part of IInv holds at the start.                                  *)
LEMMA InitParts == Init => IInv
<1> SUFFICES ASSUME Init PROVE IInv
  OBVIOUS
<1>1. TypeOK
  <2>1. n \in 0..MaxDeploys /\ attempt \in 0..Attempts
    BY MaxDeploysAssumption, AttemptsAssumption DEF Init
  <2>2. 0 \in Releases /\ {0, None} \subseteq Contents /\ None \in Contents
    BY DEF Init, Contents, Releases
  <2>3. disk \in [bin : Contents, bak : Contents, tmp : Contents]
    BY <2>2 DEF Init
  <2>4. service \in Releases \cup {None} /\ before \in Releases \cup {None}
    BY <2>2 DEF Init
  <2>5. pc \in Places /\ askedAt \in Places \cup {"never"}
    BY DEF Init, Places
  <2>6. /\ status \in Running \cup {"none", "succeeded", "failed", "canceled"}
        /\ {made, unseen} \subseteq BOOLEAN
        /\ verdict \in {"none", "ok", "canceled", "rolled_back", "unavailable", "error"}
        /\ tracker \in {"none", "active", "succeeded", "failed"}
    BY DEF Init
  <2> QED BY <2>1, <2>3, <2>4, <2>5, <2>6 DEF TypeOK
<1>2. pc = "idle" /\ n = 0 /\ before = None /\ status = "none" /\ verdict = "none"
      /\ askedAt = "never" /\ {disk.bin, disk.bak} \subseteq {0, None}
  BY DEF Init
<1>3. OnlyWholeBinaries /\ DiskInv /\ TempInv /\ ServiceInv /\ VerdictInv
  BY <1>2, ContentsAssumption
     DEF OnlyWholeBinaries, DiskInv, PreviousIsKept, TempInv, ServiceInv, VerdictInv,
         Untouched, MovedAway, Installed, PutBackAgain, Over
<1> QED BY <1>1, <1>2, <1>3 DEF IInv, UndoneMeansUndone, CancelInv, CancelIsHonoured

(* IInv is inductive; the theorems below are its parts.                    *)
LEMMA RunnerInvariant == Spec => []IInv
<1>1. IInv /\ [Next]_vars => IInv'
  BY TypeStep, PartsStep DEF IInv
<1> QED BY <1>1, InitParts, PTL DEF Spec

-----------------------------------------------------------------------------

(* Every variable of DeployArtifact keeps its type; in particular the      *)
(* health check makes no more than Attempts attempts.                      *)
THEOREM RunnerTypeCorrect == Spec => []TypeOK
<1>1. IInv => TypeOK
  BY DEF IInv
<1> QED BY <1>1, RunnerInvariant, PTL

(* Nothing but whole executables is ever installed or kept as a backup.    *)
THEOREM WholeBinariesOnly == Spec => []OnlyWholeBinaries
<1>1. IInv => OnlyWholeBinaries
  BY DEF IInv
<1> QED BY <1>1, RunnerInvariant, PTL

(* No failure, cancel request or crash loses the binary that a deploy      *)
(* replaces; only an error of os.Stat does, together with an install.      *)
THEOREM PreviousBinaryIsKept == Spec => []PreviousIsKept
<1>1. IInv => PreviousIsKept
  BY DEF IInv, DiskInv
<1> QED BY <1>1, RunnerInvariant, PTL

(* A canceled job, and a deploy that rolled back, left nothing behind.     *)
THEOREM UndoIsComplete == Spec => []UndoneMeansUndone
<1>1. IInv => UndoneMeansUndone
  BY DEF IInv
<1> QED BY <1>1, RunnerInvariant, PTL

(* A cancel request before the last checkpoint keeps the job from          *)
(* succeeding.                                                             *)
THEOREM CancelBeforeLastCheckpoint == Spec => []CancelIsHonoured
<1>1. IInv => CancelIsHonoured
  BY DEF IInv
<1> QED BY <1>1, RunnerInvariant, PTL

(* Only the health check reports success, and it is the release that has   *)
(* answered it.                                                            *)
THEOREM SuccessIsOfTheRelease == Spec => SuccessMeansRunning
<1> DEFINE Succeeds == verdict' = "ok" /\ verdict # "ok"
<1>1. ASSUME IInv, Next, Succeeds PROVE Probe
  BY <1>1 DEF Succeeds, Next, Start, Resolve, Download, Copy, Abort, Checkpoint, Validate, Backup,
    Install, Reinstall, Restart, Rollback, RestartPrevious, Cleanup, Restore, PutBack, Undo,
    UndoRestart, Settle, Returned, MarkDone, RequestCancel, ControlService, Crash, Goto, Return, run
<1>2. ASSUME IInv, Probe, Succeeds PROVE service = n /\ disk.bin = n
  BY <1>2 DEF Succeeds, Probe, IInv, DiskInv, ServiceInv, Installed
<1>3. IInv /\ [Next]_vars => [Succeeds => service = n /\ disk.bin = n]_vars
  BY <1>1, <1>2 DEF Succeeds, vars, run
<1> QED BY <1>3, RunnerInvariant, PTL DEF Spec, SuccessMeansRunning, Succeeds

=============================================================================
