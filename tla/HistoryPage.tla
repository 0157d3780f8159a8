----------------------------- MODULE HistoryPage -----------------------------
(***************************************************************************)
(* HistoryList (web/admin/src/HistoryList.tsx): the page that lists past   *)
(* deploys, filtered by application and cut into pages, and that retries   *)
(* and cancels them.  A request is served at some time after it was sent   *)
(* and its answer arrives at some time after that, in any order.           *)
(*                                                                         *)
(* A retry shows the job it made before the server lists it, and reloads a *)
(* second later; what a handler loads is the choice the operator saw when  *)
(* the handler was made, not the one there is by then.                     *)
(***************************************************************************)
EXTENDS Naturals, Sequences, FiniteSets

CONSTANTS
  Owners,       \* The applications the jobs belong to.
  AnyApp,       \* No filter.
  PastJobs,     \* The jobs there are at first, oldest first.
  RetryJobs,    \* Identities of the jobs that retries make.
  PageSize,     \* HISTORY_PAGE_SIZE; 20 in the code.
  MaxActs       \* Bound: what the operator does in one visit.

ASSUME HistoryAssumption ==
  /\ AnyApp \notin Owners /\ PageSize \in Nat \ {0} /\ MaxActs \in Nat
  /\ PastJobs \in Seq([id : {PastJobs[n].id : n \in DOMAIN PastJobs}, app : Owners,
                       status : {"ended", "canceled"}])
  /\ \A m, n \in DOMAIN PastJobs : PastJobs[m].id = PastJobs[n].id => m = n

VARIABLES
  srvJobs,     \* The history on the server, oldest first.
  removed,     \* Those of its jobs that were deleted with their application.
  filter,      \* appId.
  pageNo,      \* page.
  rows,        \* history.
  total,
  optimistic,  \* optimisticRetryIds.
  retried,     \* retriedSourceIds.
  loads,       \* Requests for rows, with what they found so far.
  posts,       \* Requests for a retry or a cancel.
  timers,      \* Timers of retries that have not fired.
  acts,        \* Counts what the operator does, see MaxActs.
  added,       \* The rows a retry added that are still those it added.
  failed,      \* The last load was answered with an error.
  strayed,     \* The last answer was not the rows of the current choice.
  misled       \* The page was chosen by a total that was not the choice's own.

historyVars == <<srvJobs, removed, filter, pageNo, rows, total, optimistic, retried,
                 loads, posts, timers, acts, added, failed, strayed, misled>>

Ids == {PastJobs[n].id : n \in DOMAIN PastJobs} \cup RetryJobs
(* A job that succeeded and one that failed are offered the same: both     *)
(* have ended.                                                             *)
Statuses == {"pending", "ended", "canceled"}
Job == [id : Ids, app : Owners, status : Statuses]
Places == [app : Owners \cup {AnyApp}, page : Nat \ {0}]
(* old: what was counted was deleted since, in part or whole.               *)
Load == [of : Places, at : {"sent", "counted", "listed"}, rows : Seq(Job), total : Nat,
         old : BOOLEAN]
Place == [app |-> filter, page |-> pageNo]

Request(of) == [of |-> of, at |-> "sent", rows |-> <<>>, total |-> 0, old |-> FALSE]

HistoryInit ==
  /\ srvJobs = PastJobs /\ removed = {}
  /\ filter = AnyApp /\ pageNo = 1
  /\ rows = <<>> /\ total = 0 /\ optimistic = {} /\ retried = {}
  /\ loads = {Request([app |-> AnyApp, page |-> 1])}
  /\ posts = {} /\ timers = {} /\ acts = 0
  /\ added = {} /\ failed = FALSE /\ strayed = FALSE /\ misled = FALSE

Status(j) == LET n == CHOOSE n \in DOMAIN srvJobs : srvJobs[n].id = j IN srvJobs[n].status
PagesOf(count) == IF count = 0 THEN 1 ELSE ((count - 1) \div PageSize) + 1
TotalPages == PagesOf(total)

(* Requests for the same rows that wait to be served together are one.     *)
WithLoad(of) == loads \cup {Request(of)}

-----------------------------------------------------------------------------
(* What the operator does.  The status a row shows is its own or what      *)
(* the live progress of its job says.                                      *)

Shows(job, status) ==
  status = job.status \/ (job.id \notin optimistic /\ status = Status(job.id))

Act == acts < MaxActs /\ acts' = acts + 1

(* The first page is there whatever it was chosen by.                      *)
Choose(of) ==
  /\ Act
  /\ filter' = of.app /\ pageNo' = of.page
  /\ misled' = (of.page > 1 /\ (misled \/ strayed \/ loads # {}))
  /\ UNCHANGED <<srvJobs, removed, rows, total, optimistic, retried, posts, timers,
                 added, failed, strayed>>

(* Variant: the page stays what it was.                                    *)
FilterKeepsPage(app) ==
  /\ app # filter
  /\ Choose([app |-> app, page |-> pageNo])
  /\ loads' = WithLoad([app |-> app, page |-> pageNo])

(* Both effects see the new filter and the old page: one loads these rows  *)
(* and the other resets the page, which loads again.                       *)
ChooseFilter(app) ==
  /\ app # filter
  /\ Choose([app |-> app, page |-> 1])
  /\ loads' = WithLoad([app |-> app, page |-> pageNo]) \cup WithLoad([app |-> app, page |-> 1])

(* Variant: the button for the page before is never disabled.              *)
ChoosePageUnbounded(n) ==
  /\ total > 0
  /\ n = pageNo - 1 \/ (n = pageNo + 1 /\ pageNo < TotalPages)
  /\ Choose([app |-> filter, page |-> n])
  /\ loads' = WithLoad([app |-> filter, page |-> n])

ChoosePage(n) ==
  /\ total > 0
  /\ \/ n = pageNo - 1 /\ pageNo > 1
     \/ n = pageNo + 1 /\ pageNo < TotalPages
  /\ Choose([app |-> filter, page |-> n])
  /\ loads' = WithLoad([app |-> filter, page |-> n])

Post(job, kind) ==
  /\ Act
  /\ posts' = posts \cup {[kind |-> kind, job |-> job, then |-> Place, answer |-> "none"]}
  /\ UNCHANGED <<srvJobs, removed, filter, pageNo, rows, total, optimistic, retried,
                 loads, timers, added, failed, strayed, misled>>

Retry(job) ==
  /\ Shows(job, "ended")
  /\ job.id \notin retried
  /\ Post(job, "retry")

Cancel(job) ==
  /\ Shows(job, "pending")
  /\ Post(job, "cancel")

-----------------------------------------------------------------------------
(* The server.                                                             *)

(* SELECT COUNT( * ) ... WHERE app_id = ?, and then its rows with ORDER BY *)
(* seq DESC LIMIT ? OFFSET ?: other statements may run between the two.    *)
Matching(app) ==
  {n \in DOMAIN srvJobs : srvJobs[n].id \notin removed /\ app \in {AnyApp, srvJobs[n].app}}
CountOf(app) == Cardinality(Matching(app))
Newer(app, n) == {m \in Matching(app) : m > n}
RowAt(app, offset) ==
  srvJobs[CHOOSE n \in Matching(app) : Cardinality(Newer(app, n)) = offset]
RowsOf(of) ==
  LET offset == (of.page - 1) * PageSize
      left == IF offset < CountOf(of.app) THEN CountOf(of.app) - offset ELSE 0
  IN  [k \in 1 .. (IF left < PageSize THEN left ELSE PageSize) |-> RowAt(of.app, offset + k - 1)]

Found(l, answer) ==
  /\ UNCHANGED <<srvJobs, removed, filter, pageNo, rows, total, optimistic, retried,
                 posts, timers, acts, added, failed, strayed, misled>>
  /\ loads' = (loads \ {l}) \cup {answer}

CountRows(l) ==
  /\ l.at = "sent" /\ Found(l, [l EXCEPT !.at = "counted", !.total = CountOf(l.of.app)])

ListRows(l) ==
  /\ l.at = "counted" /\ Found(l, [l EXCEPT !.at = "listed", !.rows = RowsOf(l.of)])

Pending(app) == \E n \in Matching(app) : srvJobs[n].status = "pending"
Existing == {srvJobs[n].id : n \in DOMAIN srvJobs}
Answer(p, answer) == posts' = (posts \ {p}) \cup {[p EXCEPT !.answer = answer]}

(* A retry is refused while its tag has an active job; the jobs of an      *)
(* application have one tag here.  A cancel is accepted whatever its job   *)
(* does; a running job stays active until its next checkpoint.  The answer *)
(* to either may be lost, which the page takes for an error.               *)
ServePost(p) ==
  /\ p.answer = "none"
  /\ \/ /\ p.kind = "retry" /\ p.job.id \notin removed /\ ~Pending(p.job.app)
        /\ \E j \in RetryJobs \ Existing :
             /\ srvJobs' = Append(srvJobs, [id |-> j, app |-> p.job.app, status |-> "pending"])
             /\ Answer(p, j) \/ Answer(p, "error")
     \/ /\ p.kind = "cancel" /\ (Answer(p, "ok") \/ Answer(p, "error"))
        /\ \/ UNCHANGED srvJobs
           \/ \E n \in Matching(p.job.app) :
                /\ srvJobs[n].id = p.job.id /\ srvJobs[n].status = "pending"
                /\ srvJobs' = [srvJobs EXCEPT ![n].status = "canceled"]
     \/ Answer(p, "error") /\ UNCHANGED srvJobs
  /\ UNCHANGED <<removed, filter, pageNo, rows, total, optimistic, retried, loads, timers, acts,
                 added, failed, strayed, misled>>

JobEnds(n) ==
  /\ srvJobs[n].status = "pending" /\ srvJobs[n].id \notin removed
  /\ \E status \in Statuses \ {"pending"} : srvJobs' = [srvJobs EXCEPT ![n].status = status]
  /\ UNCHANGED <<removed, filter, pageNo, rows, total, optimistic, retried, loads, posts, timers,
                 acts, added, failed, strayed, misled>>

(* Another operator deletes an application, and its jobs with it.  A job   *)
(* in progress refuses it and a pending one does not; here one status      *)
(* stands for both.  What the page was told of the number of rows, or is   *)
(* being told, is not so any more.                                         *)
DeleteApp(app) ==
  LET gone == {srvJobs[n].id : n \in Matching(app)}
  IN  /\ gone # {} /\ removed' = removed \cup gone
      /\ loads' = {[l EXCEPT !.old = @ \/ (l.at # "sent" /\ l.of.app \in {AnyApp, app})] : l \in loads}
      /\ strayed' = (strayed \/ filter \in {AnyApp, app})
      /\ misled' = (misled \/ (pageNo > 1 /\ filter \in {AnyApp, app}))
      /\ UNCHANGED <<srvJobs, filter, pageNo, rows, total, optimistic, retried, posts, timers,
                     acts, added, failed>>

-----------------------------------------------------------------------------
(* What answers and timers do.                                             *)

(* An error leaves the rows as they are.                                   *)
RowsArrive(l) ==
  /\ l.at = "listed" /\ loads' = loads \ {l}
  /\ \/ /\ rows' = l.rows /\ total' = l.total /\ added' = {} /\ failed' = FALSE
        /\ strayed' = (l.of # Place \/ l.old)
     \/ failed' = TRUE /\ strayed' = TRUE /\ UNCHANGED <<rows, total, added>>
  /\ UNCHANGED <<srvJobs, removed, filter, pageNo, optimistic, retried, posts, timers, acts, misled>>

(* Variant: the row is added without a look at those there are.            *)
WithRowAlways(job) == <<job>> \o rows

WithRow(job) ==
  IF \E n \in DOMAIN rows : rows[n].id = job.id THEN rows ELSE <<job>> \o rows

RetryQueued(p) ==
  /\ p.kind = "retry" /\ p.answer \in RetryJobs
  /\ posts' = posts \ {p}
  /\ retried' = retried \cup {p.job.id}
  /\ optimistic' = optimistic \cup {p.answer}
  /\ rows' = WithRow([p.job EXCEPT !.id = p.answer, !.status = "pending"])
  /\ added' = IF rows' = rows THEN added ELSE added \cup {p.answer}
  /\ timers' = timers \cup {[job |-> p.answer, then |-> p.then]}
  /\ UNCHANGED <<srvJobs, removed, filter, pageNo, total, loads, acts, failed, strayed, misled>>

CancelAccepted(p) ==
  /\ p.answer = "ok"
  /\ posts' = posts \ {p} /\ loads' = WithLoad(p.then)
  /\ UNCHANGED <<srvJobs, removed, filter, pageNo, rows, total, optimistic, retried, timers, acts,
                 added, failed, strayed, misled>>

Refused(p) ==
  /\ p.answer = "error"
  /\ posts' = posts \ {p}
  /\ UNCHANGED <<srvJobs, removed, filter, pageNo, rows, total, optimistic, retried, loads, timers,
                 acts, added, failed, strayed, misled>>

(* Variant: the timer only reloads.                                        *)
TimerOnlyReloads(t) ==
  /\ timers' = timers \ {t} /\ loads' = WithLoad(t.then)
  /\ UNCHANGED <<srvJobs, removed, filter, pageNo, rows, total, optimistic, retried, posts, acts,
                 added, failed, strayed, misled>>

TimerFires(t) ==
  /\ timers' = timers \ {t} /\ optimistic' = optimistic \ {t.job} /\ loads' = WithLoad(t.then)
  /\ UNCHANGED <<srvJobs, removed, filter, pageNo, rows, total, retried, posts, acts,
                 added, failed, strayed, misled>>

HistoryOperator ==
  \/ \E app \in Owners \cup {AnyApp} : ChooseFilter(app)
  \/ \E n \in {pageNo - 1, pageNo + 1} : ChoosePage(n)
  \/ \E n \in DOMAIN rows : Retry(rows[n]) \/ Cancel(rows[n])

HistoryAnswers ==
  \/ \E l \in loads : CountRows(l) \/ ListRows(l) \/ RowsArrive(l)
  \/ \E p \in posts : ServePost(p) \/ RetryQueued(p) \/ CancelAccepted(p) \/ Refused(p)
  \/ \E t \in timers : TimerFires(t)

HistoryNext ==
  \/ HistoryOperator \/ HistoryAnswers
  \/ \E n \in DOMAIN srvJobs : JobEnds(n)
  \/ \E app \in Owners : DeleteApp(app)

-----------------------------------------------------------------------------

HistoryTypeOK ==
  /\ srvJobs \in Seq(Job) /\ rows \in Seq(Job) /\ total \in Nat /\ removed \subseteq Ids
  /\ Place \in Places /\ acts \in 0 .. MaxActs /\ {failed, strayed, misled} \subseteq BOOLEAN
  /\ retried \subseteq Ids /\ optimistic \cup added \subseteq RetryJobs
  /\ loads \subseteq Load
  /\ posts \subseteq [kind : {"retry", "cancel"}, job : Job, then : Places,
                      answer : {"none", "ok", "error"} \cup RetryJobs]
  /\ timers \subseteq [job : RetryJobs, then : Places]

(***************************************************************************)
(* No job has two rows: not when the rows loaded after a retry was served  *)
(* arrive before its answer, nor when they arrive after it.                *)
(***************************************************************************)
NoDuplicateRows == \A m, n \in DOMAIN rows : rows[m].id = rows[n].id => m = n

(***************************************************************************)
(* HistoryList.tsx:61-62: a change of the filter never lands on a page     *)
(* that the application does not have.  It holds when the last answer that *)
(* arrived is of the current choice, and the operator turned the page by   *)
(* the total of what was chosen.  strayed and misled exclude the rest: an  *)
(* error, an older answer that arrives later, the reload of a retry made   *)
(* before the change, a page turned before the rows were there, and an     *)
(* application whose jobs are deleted while a page of them other than the  *)
(* first is shown; all but the first do land there, and the last leaves    *)
(* the page past the end until the operator turns it or changes the filter.*)
(***************************************************************************)
PageExists == ~strayed /\ ~misled => pageNo <= TotalPages

(***************************************************************************)
(* A row that a retry added is pending by the page's own belief for a      *)
(* while only: its status is the live one again in the end, and the row    *)
(* is replaced by what the server lists, unless the last of the loads that *)
(* the page makes failed.                                                  *)
(***************************************************************************)
BeliefEnds ==
  \A j \in RetryJobs :
    j \in optimistic \cup added ~>
      j \notin optimistic /\ (j \in added => loads = {} /\ failed)

=============================================================================
