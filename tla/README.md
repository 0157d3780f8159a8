# Specifications of auto-deploy

These modules specify the core of the auto-deploy service: the queue of deploys, the
coordinator that runs them, and the deploy itself, with the cancel service that reaches
into all three; the registry of applications that webhooks are authenticated from; the
live progress that the server sends to the admin application; and the pages of that
application with the handlers that answer them. TLC checks them on small instances; TLAPS
proves their safety properties for any number of applications, tags, jobs, goroutines,
requests, operators and connections, where "The proofs" says so.

Paths below are relative to `src/`.

## The system

A release workflow calls `POST /webhook`; an operator uses the admin API. Both insert rows
in a SQLite table, `deploy_jobs`. One scheduler goroutine polls the table and starts a
goroutine for each deploy, which downloads a release, replaces a binary, restarts a
systemd unit and rolls back when the unit does not come up. Everything runs in one process
with one database connection (`cmd/server/main.go:82`).

| Component | State it keeps | Operations | What makes it correct |
| --- | --- | --- | --- |
| Deploy queue, `internal/store/queue.go` | `deploy_jobs`; `activeCache`, `activeCacheMu` | Enqueue, EnqueueManual, CreateRetryJob, DequeueNext, MarkDone, SaveJobLog, RecoverStale, IsDuplicate, PendingCount, Migrate, history queries | one active job per application and tag; a limit; first in, first out; the snapshot never outlives a write |
| Admission, `internal/admission` | none | Admit | a duplicate is recognised, a trigger is not lost |
| Cancel service, `internal/cancel` | none of its own; writes `deploy_jobs` | RequestJobCancel, RequestAppCancel, IsCancelRequested, Checkpoint | a job is canceled before it starts, or at a checkpoint, or not at all |
| Coordinator, `internal/coordinator` | `activeApps`, wait group | schedule, runDeploy, captureJobLog, Wait | one deploy at a time per application; every job is settled |
| Deploy runner, `internal/deploy/deploy.go` | `BinaryPath`, `.bak`, `.tmp`, the unit | DeployArtifact | the old binary can be had back; success means the release runs; an undone deploy left nothing |
| Application registry, `internal/store/app_store.go` | `apps`, `secretHashCache`, its mutex | Create, Update, RotateSecret, SetEnabled, Delete, GetBySecretHash | an application with a running deploy is not deleted; a replaced secret stops working at once, a valid one always works |
| Admin API, `internal/admin/admin_api.go` | none | handlers | as of what they change |
| Progress tracker, `internal/progress` | an entry per application | Start, Update, SetPhase, Finish, Fail, Cleanup | an entry ends with its deploy |
| Admin event hub, `internal/admin/admin_events.go` | clients with buffers of 64 | EventsWebSocket, Broadcast | no send on a closed channel; a client that misses an event is dropped, one that is gone is forgotten |
| Live progress, `web/admin/src/AdminEventProvider.tsx` | WebSocket, timer, progress by job | connect, onopen, onmessage, onclose | the page shows what the tracker holds, also after it lost the connection |
| History page, `HistoryList.tsx` | filter, page, rows, optimistic rows | load, retry, cancel | one row per job; a page that exists; an optimistic row gives way when the rows can be loaded |
| List of applications, `AppsList.tsx` | list, statuses, releases | toggle, delete, deploy, cancel, control | the list is the server's; nothing is asked for again and again |
| Form of an application, `AppForm.tsx` | fields, editors | load, edit, submit in three requests | success means all is stored; what nobody touched stays |
| Texts of the editors, `api.ts` | none | argsToText, parseArgsText and the like | what is written is read back |
| Logs, `LogsDialog.tsx`, `SystemLogs.tsx` | what is shown | open, refresh, choose | the log of one job is never shown as another's |
| Service unit, `internal/deploy/service_unit.go`, `ServiceUnitButton.tsx` | unit file, what systemd loaded | Preview, Apply | a foreign unit file is not overwritten; what was reviewed is what is loaded |
| Settings of Telegram and GitHub, pages and handlers | rows, live client, what pages show | save and apply | what runs is what is stored; a mask is never stored |
| Accounts, `Account.tsx`, `App.tsx`, `admin_account.go` | `admin_user`, what the page knows | change of password and name, gate | no page opens on the seeded password |
| Telegram notifier, `internal/telegram` | queue of 16, connection | Notify, run, Stop | a deploy never waits for a notification |
| Download client, `internal/download` | none | DownloadWithRetryContext | bounded retries, headers not sent to other hosts |

How they interact:

- Handlers and the scheduler share the table and the snapshot. A statement or transaction
  is atomic because there is one connection; a write and the `InvalidateActiveJobsCache`
  after it are not. So it is for `apps` and its snapshot of secret hashes.
- `AppStore.Delete` removes rows of the queue and drops the snapshot through a hook.
- The cancel service writes `cancel_requested` in the row of a running deploy; the deploy
  reads it at its checkpoints, and a watcher reads it every 25 ms while it downloads.
- The deploy and the coordinator both end a job: `markTerminal` from a checkpoint,
  `MarkDone` afterwards, which changes nothing if the job has ended.
- After a crash the table and the files are all that is left; `RecoverStale` fails every
  running row before any goroutine starts.

- Deploy goroutines and cancel requests change a progress entry under the tracker's lock
  and broadcast a copy of it after unlocking. The hub puts it into one bounded channel per
  connection, the connection's goroutine forwards it, and a page takes it frame by frame.
- A page sends requests and goes on; answers come in any order, or as errors, when its
  state is no longer what it was. Other pages and operators change what the server holds.

What is hard: races between check and insert; a snapshot rebuilt beside a write; numbers
(`MAX(seq) + 1`) handed out twice; cancel against dequeue, install and health check;
deletes against deploys; a crash between any two file operations; failures inside the
rollback; statements that fail; an event between a page's snapshot and its first frame; a
client that is evicted while it leaves; answers that arrive after the choice they are of;
requests in several parts of which one fails; a file checked by one request and written by
another. `PROJECT.json` lists these hazards at their lines, with
the property that covers each or the reason there is none yet.

## The modules

| Module | What it is |
| --- | --- |
| `JobLifecycle` | the abstract life of a job: submitted once, started at most once, ended one of three ways for good |
| `DeployQueue` | the queue with all its writers |
| `Coordinator` | extends `DeployQueue` with the scheduler, the deploy goroutines and the process |
| `DeployRunner` | one application's deploys on its files and its unit |
| `EventHub` | the progress tracker and the hub that copies its events to every page |
| `LiveProgress` | extends `EventHub` with the provider of one page, which dials, shows and dials again |
| `LogViews`, `HistoryPage`, `AppsPage`, `AppFormPage`, `ServiceUnit`, `TokenSettings`, `AccountPages` | one page each, with the handlers it calls |
| `EditorText` | the texts of the two editors of an application's form |
| `AppRegistry` | the table `apps` and the snapshot of secret hashes |
| `AdminUI` | a visit of one page, or none with webhooks arriving: composes the nine before |
| `MCDeployQueue`, `MCCoordinator`, `MCAdminUI` | small instances for TLC |
| `DeployQueueProofs`, `CoordinatorProofs`, `DeployRunnerProofs` | theorems of the deploy |
| `LiveProgressProofs`, `ListPagesProofs`, `FormPagesProofs`, `EditorTextProofs`, `AdminUIProofs` | theorems of the pages, the hub and the registry |

### DeployQueue

A *caller* is any goroutine. `jobs` is the table and `issued` the ids inserted so far, in
order (a history variable: the code never reads it). Callers move through `pc`:

| `pc` | The caller is in |
| --- | --- |
| `admit` | the IsDuplicate of `Admit` |
| `orig` | `CreateRetryJob`, before the original job is looked up |
| `check` | the IsDuplicate of `Enqueue`, `EnqueueManual` or `CreateRetryJob` |
| `count` | before `PendingCount` (a retry skips it) |
| `insert` | before the INSERT |
| `invalidate` | after a write, before `InvalidateActiveJobsCache` |

`loadActiveCache` is four actions: `LookupHit` (both loads of the pointer), `LookupLock`,
`LookupQuery` and `LookupPublish`, with `LookupFail` for an error. The three ways of adding
a job share the steps from `check` on. An error of any statement is possible when
`DbMayFail` is TRUE. `RetryHistoryJob` is one step although the handler reads the job and
then the application: rows go only with their application. A writer whose statement failed
always drops the snapshot in the model; some in the code return before, which does less.
`validateTag` is the choice of `Tags`; a bearer token is the application it resolves to:
how it is resolved is in `AppRegistry`.

### Coordinator

`schedule` is `ListApps`, one `Skip` or `Take` and `Launch` per application, and `EndPass`;
`handed` is the job between `DequeueNext` and `go runDeploy`. `runDeploy` is `EndRun` or
`StopAtCheckpoint`, `Mark`, `CaptureLog` and `Exit`. `Shutdown` cancels the context;
`StartAgain` is a crash at any point or the start after an orderly exit, with
`RecoverStale` inside. The deploy itself is reduced to its effect on the job; its files
are in `DeployRunner`.

### DeployRunner

`pc` names the next operation of `DeployArtifact`; names equal to a `DeployPhase` are
checkpoints. `Onward` and `Unwind` say where a checkpoint leads without and with a cancel
request; they are the calls in `deploy.go` and the table of `cancelDecisionForStatus`.
Files hold the number of the release that was installed, or `None`, `Partial` or
`Foreign`. `service` is the binary the unit was started with. `before`, `askedAt` and
`unseen` are history variables. `Backup` takes any error of `os.Stat` for "no binary", as
the code does (`deploy.go:329`): one that comes of something else leaves the binary where
it is, without a backup, for the install to write over. `unseen` says that this has
happened. It is the one way in which the previous binary, of which
`docs/llms/01-overview.md:40` says that it is kept, is lost, and `PreviousIsKept` names it:
not just whenever `unseen` holds, but only once the release stands in the binary's place.
`Faults` selects what may fail: statements, file operations,
`systemctl`; a failed restart may have stopped the unit, restarted it or done nothing.
The response to a download is taken to carry a length or to mark its end: a body of
unknown length that is cut short without an error is not modelled.

### EventHub and LiveProgress

`entries` is the tracker; what a goroutine has yet to broadcast after unlocking it is its
`outbox`. A connection's goroutine goes through `stage`: `accepted`, `added` (in the map of
clients), `streaming` (its initial snapshot is written), `leaving`, `removed` (out of the
map, its channel still open), `gone`. `chan` is its channel, `closes` counts the calls of
`close` on it, `wire` is what the network carries. `Cut` and `WriteTimesOut` are the faults.
The phases of a deploy before its end are one, and its bytes and phases together are the
number `done`. On the page, `ws`, `connected`, `timer` and `progress` are what
`AdminEventProvider` keeps; `OnMessage` is its `onmessage` for each kind of frame. A
connection's identity is used again once it is gone, so that there is no bound on
reconnects other than on failures.

### The pages

In each module a request is an element of a set (`loads`, `posts`, `orders`, `saves`,
`fetches`, ...): it is served at some time, in one step for each statement where what it
finds can change, and answered at some time after, or as an error. An effect of React runs with
the event that changed what it depends on. Rendering is left out, except for what it
offers: a disabled button is a guard.

- `LogViews`: `subject` and `lines` are what the dialog was opened for and says; a log is
  known by what was asked for; the cleanup of the effect marks a request `canceled`.
- `HistoryPage`: `filter`, `pageNo`, `rows`, `optimistic`, `retried`, `timers` are the
  page's; `srvJobs` is the table, oldest first, and the rows of a page are picked from it
  as `ORDER BY seq DESC LIMIT ? OFFSET ?` picks them. The handler counts and then lists in
  two statements, which are two steps of a request, so that a job may come between. What a
  handler's closure saw is recorded in the request. `DeleteApp` is another operator's: the
  jobs of an application go with it (`app_store.go:387`); their ids are put in `removed`, so
  that the history shrinks under an open page, and answers that have counted them are
  marked `old`. A retry or a cancel may be carried out and its answer lost, which the page
  takes for an error. `added` and `failed` are history variables: the rows of retries the
  server has not replaced, and that the last load was answered with an error. A job that succeeded and one that
  failed are the same here, "ended": the page offers the same for both.
- `AppsPage`: `registry` is the table, `apps` the list on the page; `fetched` counts how
  often the releases of each application were asked for. A request that was carried out may
  be answered with an error all the same: `ToggleApp` reads the application again after it
  has written it (`admin_api.go:426-434`), and an answer can be lost.
- `AppFormPage`: the three parts `app`, `env`, `args` of `stored` and of `form`. A
  submission goes from one part to the next with `After`.
- `ServiceUnit`: one unit file and the applications that name it; `file` is on disk,
  `loaded` in systemd. A unit's text is the application and the version of its settings.
- `TokenSettings`: a text is a token, masked or not. Each save is read, stored and applied
  in three steps. The page of GitHub and that of Telegram differ in the environment's token.
- `AccountPages`: `user` is the row, `account` what `App` was told last, `Screen` what it
  renders.
- `EditorText`: pure functions from texts to lists and back, on sequences of characters.

History variables say when something out of the ordinary has happened, which the property
excludes. They also say what the code does then:

| Variable | What it excludes | What the code does then |
| --- | --- | --- |
| `strayed`, `misled` (`HistoryPage`) | an error, an older answer that arrives last, the reload of a retry made before the filter changed, a page turned by a total of something else, jobs of the listed applications deleted under a page after the first or an answer on its way | the page may not exist: it stays past the end until it is turned or the filter changes |
| `overlapped` (`AppsPage`) | two loads of the list at once, a load that fails | the older list may stay until the next load |
| `unheard` (`AppsPage`) | applications changed by a request that was answered with an error | the page loads nothing after an error and shows the older state until the next list is read |
| `early` (`AppFormPage`) | parts submitted before they were filled, as after a load that failed | the part is wiped |
| `clashed` (`AppFormPage`) | two submissions at once: nothing disables the button | their parts may mix |
| `muddled` (`ServiceUnit`) | settings changed between preview and apply, variables that could not be read, two applies at once, a hand at the file | another unit than the reviewed one may be in place |
| `unseen` (`DeployRunner`) | a binary that `os.Stat` did not see, which the release was then installed over | it is lost: there was no backup of it |
| `kept` (`ServiceUnit`) | a file put there between an apply's check and its write | it is lost |
| `crossed` (`TokenSettings`) | two saves at once | the live client may have the other token until the next save |

Other things the models show, for which no text promises better: a form that is loaded
again because a message was dismissed loses what was typed; a submission that ends after
its form was left navigates all the same; an apply that is answered late closes a preview
that was opened since; our own unit file whose write stopped halfway may be refused as
foreign from then on, unless its first line, the marker, was written; a page whose timer's
load fails goes on showing the row that a retry added, "pending", although the page no
longer believes it; an older answer about the account shuts the gate again until the next one;
pages open when the account cannot be asked for; a variable whose value ends in whitespace
or has a newline is admitted by the server and cannot be held by the editor; an edit of an
application writes back the `enabled` flag its handler has read, so that it may undo a
toggle.

### AppRegistry

`GetBySecretHash` is `Present`, then `HashHit`, or `LockMiss`, `QueryApps` and
`PublishHashes`; a write is `Committed` with the new rows and then `Drop`, which waits for
the mutex. `past` remembers each replaced table with the handlers that have written since
and not returned; `allowed` is what each webhook may be answered from: the table at any
moment of its request, or a replaced one of which none of those writes had returned when
the request began. The scheduler and `Admit` read `apps` elsewhere (`DeployQueue`).

### AdminUI

`visit` is the page of a behaviour. `AdminRouter` mounts one page at a time and each page
starts with no state, so that a behaviour in which pages follow one another is a sequence
of visits. The composition lets one run check all pages, and lets the theorems be about
one specification.

## The runs

| Run | Instance | Distinct states | Shows |
| --- | --- | --- | --- |
| `queue` | 2 applications, 1 tag, 2 jobs, 2 callers, limit 1, failing statements | 2 x 10^5 | `TypeOK`, `UniqueActive`, `CacheCoherent`, and the refinement of `JobLifecycle` |
| `queue_limit` | 2 applications, 3 tags, 3 jobs, 2 callers, limit 1; only pending jobs and enabled applications | 2 x 10^5 | `SeqFollowsArrival`, `Overshoot` |
| `coordinator` | 1 application, 2 tags, 2 jobs, 1 client, 1 restart | 3 x 10^5 | `OneDeployPerApp`, `DeployHasRunningRow`, `RunningRowHasDeploy`, and the refinement of `DeployQueue` |
| `liveness` | 1 application, 1 tag, 2 jobs, 1 client, 1 restart, no symmetry | 3 x 10^5 | `JobsAreSettled` |
| `runner` | 3 deploys, 5 health checks, all faults | 3 x 10^4 | the properties of `DeployRunner` |
| `live` | 1 application, 1 job, 2 connections, buffer and window of 1, 1 report, 1 fault | 6 x 10^5 | `NoPanic`, `CaughtUp`, `PageCatchesUp`, `HubForgets` |
| `admin_ui` | see below | 4 x 10^5 | the properties of every page, of the texts and of the registry |
| `cancel_ignored` | as `live` | | the finding `CancelIsShown` |
| `queue_bound`, `backup_unused`, `not_atomic`, `tracker_leak` | smallest that show it | | the findings below |

The bounds. Two callers are enough for every pairwise race: a rebuild against a write, two
check-then-inserts, a cancel against a dequeue. Two jobs share a tag or an application, or
do not; three let a number of a deleted row come back between two rows that stay, and let
two pending jobs of one application exceed a limit of 1 while a job of another is deleted.
Three deploys let the backup of the first be overwritten by the second and missed by the
third. The constraint of `queue_limit` cuts at rows that have ended, which concern neither
property; deletes still free their numbers. Wherever there is no bound in the code
(jobs, restarts, deploys) the theorems below drop it.

A buffer and a window of 1 make a client slow at once, so that eviction meets every stage of
a connection; with two connections the next one is made while the last still leaves. One
fault is enough to lose a connection at each moment, and evictions are not bounded by it.
In `admin_ui` each page has two of what its property tells apart and two or three acts: two
subjects of logs and three numbers of lines, 4 requests; two past jobs of two applications
at one row to a page, a retry, two acts of the operator and any deletes by another, so that
the unfiltered history has two pages at first, three after the retry and fewer after a
delete, and that of an application one or two; two applications in the list and 2 orders;
an edit, 2 submissions and a new rendering of the form; two applications of one unit and 3 acts; two
operators, two tokens, 2 saves and a change of the input; two names and 3 changes of the
account; lists of up to 2 arguments of 2 characters, or one of 4, over an alphabet that has
every character the code looks at; 2 applications, 2 secrets, 2 handlers and 2 writes of
the registry. Two requests at a time are what overtakes one another; the proofs of the
pages drop these numbers.

Deadlock is checked in the runs of the queue. The coordinator's and the runner's bounds
(`MaxRestarts`, `MaxDeploys`) end a behaviour, so it is not checked there; nor is it for
the pages, where a user who does nothing more, or has left, ends one.

Fairness, in `Coordinator!Fairness`: weak for the scheduler and for each deploy goroutine,
because Go runs every goroutine that can run, because the reads of a download time out
(`download_client.go:79`) and its retries are bounded, because `systemctl`
and `journalctl` are killed after 30 s (`deploy.go:24-40`); weak for a rebuild in
progress; strong for `InvalidateActiveJobsCache`, because `sync.Mutex` in its starvation mode
hands the lock to the oldest waiter. There is none for clients (nobody must send a request)
and none for the start of a stopped service: while it is stopped, jobs may wait. `JobsAreSettled` is checked with statements that do
not fail; a failing MarkDone leaves a row running until the next start.

In `LiveProgress!Spec`: weak for each goroutine that has something to broadcast, for the
goroutine of each connection, and for the page, whose event loop takes what comes and whose
timer calls `connect`. None for deploys, faults and the user. `PageCatchesUp` then says that
a page that stays open catches up once failures cease; `HubForgets` needs the reader of a
connection (`CloseRead`) to notice that the page is gone. In `AdminUI!UISpec`: weak for the
timer of each retry, which the browser fires, and for the answers to loads of the history's
rows and to requests about services and the account, which come, if only as an error,
because the browser gives up at last. The fair actions are those of the visited page and
leave the other pages alone. None for the operator or for anybody else who changes the
server's tables, and none for the rest of the answers: no property needs them.

What the runs cannot see: times (the 25 ms watcher, backoffs, the 2 s of a health check)
are only order; applications that share a binary path or a unit are separate.

## What disagrees with the documentation

- **`QueueBound`.** `README.md:193` documents `DEPLOY_QUEUE_MAX` as "Max pending deploys
  per app". `Enqueue` counts and inserts in two statements and `CreateRetryJob` does not
  count. `Overshoot` is what holds: retries aside, the excess is less than the number of
  requests that race.
- **`BackupIsUsed`.** `README.md:263` says a failed health check restores the `.bak` file.
  After a crash between the two renames the next deploy finds no binary, makes no backup,
  and on a failed health check reports that there is none, beside the one that is there.
- **`ReplacedAtomically`.** `README.md:19` says the binary is replaced atomically. The
  backup is a rename, so that there is no binary until the second rename, with a checkpoint
  in between.
- **`EntriesFinish`.** `internal/progress/progress_tracker.go:32` says an entry is for the
  active deployment or finished. A canceled deploy leaves its entry active.

- **`CancelIsShown`.** `web/admin/src/AdminEventProvider.test.tsx:269-280` has a
  `cancel_requested` event turn the status of a job on the page into "cancel_requested".
  The test's frame has the job in its payload; the server puts it beside the payload
  (`internal/cancel/cancel_service.go:308-336`, `internal/admin/admin_events.go:302`), where
  the page does not look, so that no cancel event changes a status.

## The proofs

Assumptions: `MaxPending` is positive; the markers `NoJob`, `NoCache` and `Free` differ
from what they are markers among, and so do `None`, `Partial` and `Foreign`; there is at
least one health check; the callers of the coordinator are its clients, its
scheduler and one goroutine per job. No number is bounded, except `MaxRestarts`,
`MaxDeploys` and `Attempts` being numbers. `OvershootIsBounded` alone assumes that a set is
finite, `Callers`: its statement counts them.

`DeployQueueProofs`:

- `TypeCorrect`: `TypeOK`. Besides types it says that whoever holds `activeCacheMu` is
  looking up and that a half-built snapshot has a holder; the next proof needs both.
- `CacheIsCoherent`: with `TypeOK`, `CacheCoherent` is inductive because it speaks of the
  half-built snapshot as well: one that was read before a write must not be published
  after the write's invalidation. That the invalidation takes the mutex is used exactly
  there.
- `ActiveIsUnique`: inductive on its own; rows only become active in `InsertRow`.
- `SeqIsArrivalOrder`: the strengthening adds that the row with the largest number is newer
  than the others and that `issued` repeats no id. It needs that jobs are inserted at the
  end of `issued`, and that a maximum over all rows is above all rows that are left.
- `OvershootIsBounded`: how far a limit is exceeded depends on who is between the count
  and the INSERT. `RoomInv` adds the jobs that wait, retries aside, and the callers that
  were let through: together they are no more than `MaxPending` and all callers but one.
  A caller is let through only while fewer than `MaxPending` jobs wait, and at most the
  others were let through before it; an INSERT moves one from the second number to the
  first. A restart keeps the rows and ends the callers.
- `QueueImplementsLifecycle`: each action of the queue is a step of `JobLifecycle` or
  changes no job. `Restart` is `Recover`, `DeleteApp` is `Remove`, `CancelAll` is `Cancel`.

`CoordinatorProofs`:

- `CoordinatorImplementsQueue`: every step of the coordinator is a step of `DeployQueue`
  or leaves its variables, so that the theorems above hold of the running service
  (`ServiceKeepsQueue`).
- `OneDeployAtATime`, `DeployKeepsItsRow`, `NoRowLeftRunning`: from `CoordInv`, the
  invariant that ties `activeApps`, the goroutines, `handed` and the rows together. None of
  the three is inductive alone: that a dequeue starts no second deploy needs that every
  worker's application is in `activeApps`, and that its row stays needs that deletes refuse
  running rows and that only its own goroutine ends it.

`DeployRunnerProofs` proves each property of the `runner` run. None is inductive, because
what a failed step leaves behind depends on what was done before it; `IInv` adds

- `DiskInv`: where the previous binary is at each place of the deploy: still at
  `BinaryPath`, moved to `.bak`, or put back; that `made` says whether there was one, unless
  it was `unseen`, so that the undo steps know; and that it is not the new release;
- `TempInv`: from the end of the copy to the ELF check the temporary file is whole, and
  from there to the install it is the release, so that only executables are installed;
- `ServiceInv`: before the restart, and when a cancel has been undone, the unit does not
  run the new release; from the restart to the health check it runs that or nothing;
- `VerdictInv`: until the deploy returns, it has no verdict and its row still runs; the
  health check counts from 0;
- `CancelInv`: a row that is in progress has not been asked to stop, so that a deploy which
  passes a checkpoint has no request behind it.

`SuccessIsOfTheRelease` then needs one action: `Probe` is the only one that returns "ok",
and `ServiceInv` and `DiskInv` say what runs and what is installed there.

`LiveProgressProofs`:

- `NeverPanics`, from `ClientsInv`: a connection in the map of clients is in a stage
  between `AddClient` and `RemoveClient` with its channel open, and no channel is closed
  twice. Eviction takes a client out of the map in the step that closes its channel, and
  `removeClient` takes it out before it does.
- `LiveTypeCorrect`: `TypeOK`, with what it rests on: a running deploy has an entry of its
  own job, and a page that is connected has a socket.
- `PageIsCaughtUp`: `CaughtUp` speaks of a connection that has nothing on its way. Until
  then the state of an application is on its way in one of four places, and `ToldInv` says
  so of every entry of the tracker, unless a broadcast about it is still to be made: the
  page shows it, or the last frame about it in the channel or the network says it, or the
  snapshot that is to come will. It is inductive only with `TrackerInv`: what waits to be
  broadcast about an application is what its entry says, and a job belongs to one
  application, so that a frame about another does not overwrite it; and with `EmptyInv`: a
  connection joins the map with an empty channel. That `AddClient` comes before
  `WriteInitial` is used in the step of the snapshot: an entry that changes after it is
  broadcast to a client that is in the map. `PageAssumption` says that the markers for no
  connection and for a job of which nothing is shown are neither a connection nor progress.

`AdminUIProofs` proves the safety properties of the visits. A step of `AdminUI` is a step
of the visited page and a stutter of every other (`UIStep`), so that each page's invariant,
proved of its own `Next` in its module, holds in every visit (`PagesInv`):

- `LogsInv` (`ListPagesProofs`): a request that is not canceled is of the dialog's subject
  and lines, and none is left when it is closed; `SystemLogs` has one request at a time,
  of the lines that are chosen; so `LogOfSubject`.
- `HistoryInv` (`ListPagesProofs`): no answer on its way and no list has a job twice
  (`RowsInv`): `RowsOf` takes positions of the table, the row at each offset being the one
  with that many newer rows, and two offsets have different rows. An answer counts no more
  jobs than there are, unless some of those it counted were deleted since (`CountsInv`);
  other than by deletions the history only grows. So the pages an answer counts are there
  when one of them is chosen, and the page that was chosen is there when another answer for
  the same application comes, whether counted before or after, as long as no deletion has
  misled the page, which it does when it comes while a page after the first is shown
  (`PageInv`); so `NoRowTwice` and `PageIsThere`. What was deleted is no part of a count
  or a list from then on, so that an answer about the history as it has become is
  covered: the page chosen by it must be there, too.
- `AppsInv` (`ListPagesProofs`): an application's releases were asked for once if they are
  there or on their way and never otherwise; unless loads overlapped there is at most one
  (`OneLoad`), and with no accepted order left whose answer will load the list, the list is
  the server's or a load is on its way that brings it, but for what is `unheard`: that no
  older list arrives after the one which clears `unheard` is what `OneLoad` gives; so
  `ReleasesOnce` and `ListComesFresh`.
- `FormInv` (`FormPagesProofs`): what a submission that runs alone has sent is stored up to
  the part it is at; what an editor nobody touched holds, once it is filled, and what a
  submission sends of it, is what was stored when the form opened; so `DoneIsSaved` and `UntouchedStays`.
- `RegistryInv` (`FormPagesProofs`): the snapshot, and the one being built, is the table as
  it is or a replaced one that may still be served, and a webhook that looks is allowed
  each of these. That a write drops the snapshot under the mutex gives that nothing is
  being built then; so `SecretsAreCurrent`.
- `UnitInv` (`FormPagesProofs`): unless something muddled it, what a dialog shows, an apply
  was told and has rendered is what the settings say, and the apply is alone at the file,
  which it has written when it says so; no apply that has checked the file found one
  written by hand that is still there; so `ReviewedUnitIsLoaded` and `HandWrittenUnitIsKept`.
- `SettingsInv` (`FormPagesProofs`): a mask is in a page's input only as it was shown, so
  that no request carries one; unless two saves crossed, the one in progress has stored
  what it will apply, and with none that has stored the client has what is stored; so `MaskIsNeverStored` and `LiveClientIsStored`.
- `AccountInv` (`FormPagesProofs`): a seeded password is never set again, so that an answer
  which says it was replaced stays true; so `SeededPasswordGates`.

`TextsAreReadBack`: what the two editors of a form write they read back, for every list,
every argument, name and value that `ArgLists` and `EnvLists` hold, whatever
their bounds. The readers of `EditorText` are folds over the text,
and `EditorTextProofs` proves by induction what a fold computes: the claim is the set of
the numbers it holds for, and the least number outside that set would exist because `<` is
well-founded on the naturals. A fold has a run, its results after 0, 1, ... elements
(`ArgsAreRead`, `EnvIsRead`). For arguments, the invariant of the run says in which state
the parser is at each boundary between two arguments and inside one, quoted or not; that
an argument which is empty, begins with `#` or has a blank, a quote or a backslash is quoted, and that
within quotes exactly the quote and the backslash are escaped, is what its steps use. For
the environment, the text is split at line ends first (`LinesAreSplit`: a line without one
is split off as it is) and each line at its first `=` (`EnvLineIsRead`: a name is not empty
and has no `=`, `#` or blank; a value may have an `=` or `#` anywhere but ends in no blank,
which is what the editor can hold).

`UITypeCorrect` collects the types of all pages; the conjuncts of `AppsTypeOK` and
`FormTypeOK` about numbers of requests are inductive because each answer takes away one
request that was counted.

Assumptions there: the markers differ from what they are markers among, the tokens of the
environment are not those of the operators, past jobs have different identities, and
bounds are numbers.

Liveness under fairness is beyond the prover. What is proved of each liveness property is
the invariant it rests on: whoever waits has somebody left to end the wait.

| Property, checked by TLC | Theorem | What it says |
| --- | --- | --- |
| `JobsAreSettled` | `NoRowLeftRunning` | a row that says it runs has a goroutine, unless a statement failed |
| `HubForgets` | `DroppedIsTold` | a connection the hub has dropped has a closed channel, unless its goroutine is past the loop that waits on it |
| `PageCatchesUp` | `PageKeepsDialing` | an open page has a socket or a timer that dials again, and not both |
| `BeliefEnds` | `BeliefPasses` | every row that is pending by the page's belief has a timer that ends the belief and loads the rows; an added row that no timer or load stands for is there because the last load failed |
| `StatusSettles` | `PlaceholderHasRequest` | every placeholder has a request on its way that replaces it |
| `GateOpens` | `GateHasRequest` | a page that knows the password is replaced has a request on its way that opens it |

Only model-checked: the liveness properties themselves, for the fairness they need.

## Not modelled

Route wiring, rendering, the installer, the documentation generator, the self-upgrade
command and configuration do input and output only. The history queries are steps of `HistoryPage`. The legacy
`Worker` in `worker.go` and the template handlers of `admin_apps.go` are not used by the
program. Login is a signed token with an expiry: no state beside the cookie. The notifier
drops what it cannot hold, by its own comment, and no text promises delivery. The download
client is one loop of bounded retries around the HTTP library; its outcomes are the
choices of `DeployRunner`. `Migrate` runs once, before any goroutine; on a database from
before `deploy_jobs` its backfill executes a statement while its rows are open
(`internal/store/queue.go:257`), on a pool of one connection.

## Plan

1. An abstract registry without a cache, which `AppRegistry` implements, and an abstract
   hub that shows a page the tracker's states in order, which `LiveProgress` implements.
2. `Notifier`: the bounded queue through reconfiguration and shutdown.
3. `Migration`: deduplication, index and backfill with a crash between any two, on a pool
   of one connection; with it the lock order of the connection and `activeCacheMu`.
4. `Download`: attempts, redirects, the size limit at its boundary, framing of the body.
