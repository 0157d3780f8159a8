------------------------------ MODULE LogViews ------------------------------
(***************************************************************************)
(* The two places of the admin page that show logs: LogsDialog             *)
(* (web/admin/src/LogsDialog.tsx), opened over the history for the log of  *)
(* a job and over the list of applications for a live journal, and         *)
(* SystemLogs (SystemLogs.tsx).  Answers come in any order; a log is       *)
(* known by what was asked for.  An effect runs with the event that        *)
(* changed what it depends on.                                             *)
(***************************************************************************)
EXTENDS Naturals

CONSTANTS
  Jobs, Services,  \* What a dialog is opened for; only a service's is live.
  LineCounts,      \* Choices of LINE_OPTIONS, 0 for all.
  DefaultLines,    \* 100.
  MaxLogCalls,     \* Bound: requests of one visit.
  Nothing          \* No subject, or no log yet.

ASSUME LogViewsAssumption ==
  /\ Nothing \notin Jobs \cup Services /\ Jobs \cap Services = {}
  /\ Nothing \notin LineCounts /\ DefaultLines \in LineCounts /\ LineCounts \subseteq Nat /\ MaxLogCalls \in Nat

VARIABLES
  subject,   \* logsJobId or logsAppId: the dialog is open when there is one.
  lines,     \* LogsDialog's lines; they outlive a closed dialog.
  log,       \* What the dialog's text was asked as.
  loading,   \* LogsDialog's loading.
  fetches,   \* Its requests without an answer, those canceled included.
  sysLines, sysLog, sysLoading, sysFetches,  \* SystemLogs' own.
  sysFailed, \* Its last request failed.
  logCalls   \* Counts the requests, see MaxLogCalls.

dialogVars == <<subject, lines, log, loading, fetches>>
systemVars == <<sysLines, sysLog, sysLoading, sysFetches, sysFailed>>
logVars == <<dialogVars, systemVars, logCalls>>

Subjects == Jobs \cup Services
Asked == [of : Subjects, lines : LineCounts]

LogsInit ==
  /\ subject = Nothing /\ lines = DefaultLines /\ log = Nothing
  /\ loading = FALSE /\ fetches = {}
  /\ sysLines = DefaultLines /\ sysLog = Nothing
  /\ sysLoading = TRUE /\ sysFailed = FALSE
  /\ sysFetches = {[id |-> 0, lines |-> DefaultLines]}
  /\ logCalls = 0

-----------------------------------------------------------------------------
(* LogsDialog.                                                             *)

(* Variant: the effect has no cleanup.                                     *)
CanceledNever == fetches

(* The cleanup of the effect sets the flag of the request before.          *)
Canceled == {[f EXCEPT !.canceled = TRUE] : f \in fetches}

Fetch(s, n) ==
  /\ logCalls < MaxLogCalls /\ logCalls' = logCalls + 1
  /\ loading' = TRUE
  /\ fetches' = Canceled \cup
       {[id |-> logCalls', asked |-> [of |-> s, lines |-> n], canceled |-> FALSE]}
  /\ UNCHANGED <<log, systemVars>>

OpenLogs(s) ==
  /\ subject = Nothing
  /\ subject' = s /\ Fetch(s, lines) /\ UNCHANGED lines

(* The selector is there for a live log, and disabled while it loads.      *)
ChooseLines(n) ==
  /\ subject \in Services /\ ~loading /\ n # lines
  /\ lines' = n /\ Fetch(subject, n) /\ UNCHANGED subject

RefreshLogs ==
  /\ subject # Nothing /\ ~loading
  /\ Fetch(subject, lines) /\ UNCHANGED <<subject, lines>>

(* finally is skipped with the rest when canceled: loading stays as it is. *)
CloseLogs ==
  /\ subject # Nothing
  /\ subject' = Nothing /\ fetches' = Canceled
  /\ UNCHANGED <<lines, log, loading, systemVars, logCalls>>

(* The text of an error is shown as a log is.                              *)
LogArrives(f) ==
  /\ fetches' = fetches \ {f}
  /\ IF f.canceled THEN UNCHANGED <<log, loading>> ELSE log' = f.asked /\ loading' = FALSE
  /\ UNCHANGED <<subject, lines, systemVars, logCalls>>

-----------------------------------------------------------------------------
(* SystemLogs.                                                             *)

LoadSystemLogs(n) ==
  /\ logCalls < MaxLogCalls /\ logCalls' = logCalls + 1
  /\ sysLoading' = TRUE
  /\ sysFetches' = sysFetches \cup {[id |-> logCalls', lines |-> n]}
  /\ UNCHANGED <<sysLog, sysFailed, dialogVars>>

SystemControls == ~sysLoading

ChooseSystemLines(n) ==
  /\ SystemControls /\ n # sysLines
  /\ sysLines' = n /\ LoadSystemLogs(n)

RefreshSystemLogs == SystemControls /\ LoadSystemLogs(sysLines) /\ UNCHANGED sysLines

(* An error leaves the log that was there and shows a message.             *)
SystemLogArrives(f) ==
  /\ sysFetches' = sysFetches \ {f} /\ sysLoading' = FALSE
  /\ \/ sysFailed' = FALSE /\ sysLog' = f.lines
     \/ sysFailed' = TRUE /\ UNCHANGED sysLog
  /\ UNCHANGED <<sysLines, dialogVars, logCalls>>

LogsNext ==
  \/ \E s \in Subjects : OpenLogs(s)
  \/ \E n \in LineCounts : ChooseLines(n) \/ ChooseSystemLines(n)
  \/ RefreshLogs \/ CloseLogs \/ RefreshSystemLogs
  \/ \E f \in fetches : LogArrives(f)
  \/ \E f \in sysFetches : SystemLogArrives(f)

-----------------------------------------------------------------------------

LogsTypeOK ==
  /\ subject \in Subjects \cup {Nothing} /\ lines \in LineCounts
  /\ log \in Asked \cup {Nothing} /\ loading \in BOOLEAN
  /\ fetches \subseteq [id : 1 .. MaxLogCalls, asked : Asked, canceled : BOOLEAN]
  /\ sysLines \in LineCounts /\ sysLog \in LineCounts \cup {Nothing}
  /\ {sysLoading, sysFailed} \subseteq BOOLEAN
  /\ sysFetches \subseteq [id : 0 .. MaxLogCalls, lines : LineCounts]
  /\ logCalls \in 0 .. MaxLogCalls

(***************************************************************************)
(* The log shown is the one asked for.  An open dialog that is not loading *)
(* shows the log of what it was opened for, in the number of lines it      *)
(* says: an answer that comes after the dialog was closed and opened for   *)
(* another job is not shown as that job's log.  SystemLogs ignores no      *)
(* answer; that its log is of the lines chosen rests on its controls being *)
(* disabled until its one request has been answered.                       *)
(***************************************************************************)
DialogIsOfSubject ==
  subject # Nothing /\ ~loading => log = [of |-> subject, lines |-> lines]
SystemLogIsOfLines == ~sysLoading /\ ~sysFailed => sysLog = sysLines
LogIsOfSubject == DialogIsOfSubject /\ SystemLogIsOfLines

=============================================================================
