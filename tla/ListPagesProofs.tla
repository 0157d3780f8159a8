-------------------------- MODULE ListPagesProofs ---------------------------
(***************************************************************************)
(* What every step of the pages with a log or a list keeps: LogViews,      *)
(* HistoryPage and AppsPage, for any number of requests on their way,      *)
(* jobs, rows to a page, applications and orders.                          *)
(***************************************************************************)
EXTENDS LogViews, HistoryPage, AppsPage, FiniteSetTheorems, TLAPS

-----------------------------------------------------------------------------
(* The logs and the history.                                               *)

(* The one request that may still set the log is for what the dialog       *)
(* shows; none may while the dialog is closed.                             *)
LiveIsAsked ==
  \A f \in fetches :
    ~f.canceled => subject # Nothing /\ f.asked = [of |-> subject, lines |-> lines]

(* SystemLogs ignores no answer: it may have one request only, made with   *)
(* the lines that are chosen.                                              *)
OneSystemFetch ==
  /\ ~sysLoading => sysFetches = {}
  /\ \A f \in sysFetches : f.lines = sysLines
  /\ \A f, g \in sysFetches : f = g

LogsInv == LogsTypeOK /\ LogIsOfSubject /\ LiveIsAsked /\ OneSystemFetch

LEMMA LogsInitInv == LogsInit => LogsInv
<1> SUFFICES ASSUME LogsInit PROVE LogsInv
  OBVIOUS
<1>1. LogsTypeOK
  <2>1. 0 \in 0 .. MaxLogCalls /\ {TRUE, FALSE} \subseteq BOOLEAN
    BY LogViewsAssumption
  <2>2. sysFetches \subseteq [id : 0 .. MaxLogCalls, lines : LineCounts]
    BY <2>1, LogViewsAssumption DEF LogsInit
  <2>3. loading \in BOOLEAN /\ {sysLoading, sysFailed} \subseteq BOOLEAN
    BY DEF LogsInit
  <2> QED BY <2>1, <2>2, <2>3, LogViewsAssumption DEF LogsInit, LogsTypeOK
<1>2. LogIsOfSubject /\ LiveIsAsked /\ OneSystemFetch
  BY DEF LogsInit, LogIsOfSubject, DialogIsOfSubject, SystemLogIsOfLines, LiveIsAsked, OneSystemFetch
<1> QED BY <1>1, <1>2 DEF LogsInv

(* Canceling keeps what was asked and leaves nothing live.                 *)
LEMMA CanceledProperties ==
  ASSUME LogsTypeOK
  PROVE  /\ Canceled \subseteq [id : 1 .. MaxLogCalls, asked : Asked, canceled : BOOLEAN]
         /\ \A f \in Canceled : f.canceled
  BY DEF LogsTypeOK, Canceled

LEMMA FetchStep ==
  ASSUME LogsInv, NEW s \in Subjects, NEW n \in LineCounts,
         Fetch(s, n), subject' = s, lines' = n
  PROVE  LogsInv'
<1> DEFINE new == [id |-> logCalls', asked |-> [of |-> s, lines |-> n], canceled |-> FALSE]
<1>0. LogsTypeOK /\ s # Nothing /\ logCalls' \in 1 .. MaxLogCalls
  BY LogViewsAssumption DEF LogsInv, LogsTypeOK, Fetch, Subjects
<1>1. new \in [id : 1 .. MaxLogCalls, asked : Asked, canceled : BOOLEAN] /\ new.asked = [of |-> s, lines |-> n]
  BY <1>0 DEF Asked
<1>2. fetches' = Canceled \cup {new} /\ loading' = TRUE /\ log' = log /\ UNCHANGED systemVars
  BY DEF Fetch
<1>3. LogsTypeOK'
  <2>1. fetches' \subseteq [id : 1 .. MaxLogCalls, asked : Asked, canceled : BOOLEAN]
    BY <1>0, <1>1, <1>2, CanceledProperties
  <2>2. loading' \in BOOLEAN /\ logCalls' \in 0 .. MaxLogCalls /\ subject' \in Subjects \cup {Nothing}
    BY <1>0, <1>2
  <2> QED BY <1>0, <1>2, <2>1, <2>2 DEF LogsTypeOK, systemVars
<1>4. LiveIsAsked'
  BY <1>0, <1>1, <1>2, CanceledProperties DEF LiveIsAsked
<1>5. OneSystemFetch' /\ LogIsOfSubject'
  BY <1>2 DEF LogsInv, OneSystemFetch, LogIsOfSubject, DialogIsOfSubject, SystemLogIsOfLines, systemVars
<1> QED BY <1>3, <1>4, <1>5 DEF LogsInv

LEMMA SystemFetchStep ==
  ASSUME LogsInv, NEW n \in LineCounts, SystemControls, LoadSystemLogs(n), sysLines' = n,
         UNCHANGED dialogVars
  PROVE  LogsInv'
<1> DEFINE new == [id |-> logCalls', lines |-> n]
<1>0. LogsTypeOK /\ logCalls' \in 0 .. MaxLogCalls
  BY LogViewsAssumption DEF LogsInv, LogsTypeOK, LoadSystemLogs
<1>1. /\ new \in [id : 0 .. MaxLogCalls, lines : LineCounts] /\ new.lines = n
      /\ sysFetches' = {new} /\ sysLoading' = TRUE /\ UNCHANGED <<sysLog, sysFailed>>
  BY <1>0 DEF LogsInv, OneSystemFetch, SystemControls, LoadSystemLogs
<1>2. LogsTypeOK'
  BY <1>0, <1>1 DEF LogsTypeOK, dialogVars, Asked, Subjects
<1>3. LiveIsAsked' /\ DialogIsOfSubject'
  BY DEF LogsInv, LogIsOfSubject, LiveIsAsked, DialogIsOfSubject, dialogVars
<1>4. OneSystemFetch' /\ SystemLogIsOfLines'
  BY <1>1 DEF OneSystemFetch, SystemLogIsOfLines
<1> QED BY <1>2, <1>3, <1>4 DEF LogsInv, LogIsOfSubject

LEMMA LogsStep == LogsInv /\ [LogsNext]_logVars => LogsInv'
<1> SUFFICES ASSUME LogsInv, [LogsNext]_logVars PROVE LogsInv'
  OBVIOUS
<1> USE DEF dialogVars, systemVars, logVars
<1>0. LogsTypeOK /\ LogIsOfSubject /\ LiveIsAsked /\ OneSystemFetch
  BY DEF LogsInv
<1>1. ASSUME NEW s \in Subjects, OpenLogs(s) PROVE LogsInv'
  BY <1>0, <1>1, FetchStep DEF OpenLogs, LogsTypeOK
<1>2. ASSUME NEW n \in LineCounts, ChooseLines(n) PROVE LogsInv'
  BY <1>2, FetchStep DEF ChooseLines, Subjects
<1>3. CASE RefreshLogs
  BY <1>0, <1>3, FetchStep DEF RefreshLogs, LogsTypeOK
<1>4. ASSUME NEW n \in LineCounts, ChooseSystemLines(n) PROVE LogsInv'
  BY <1>4, SystemFetchStep DEF ChooseSystemLines, LoadSystemLogs
<1>5. CASE RefreshSystemLogs
  BY <1>0, <1>5, SystemFetchStep DEF RefreshSystemLogs, LoadSystemLogs, LogsTypeOK
<1>6. CASE CloseLogs
  <2>1. LogsTypeOK'
    BY <1>0, <1>6, CanceledProperties DEF CloseLogs, LogsTypeOK, Asked, Subjects
  <2>2. LiveIsAsked'
    BY <1>0, <1>6, CanceledProperties DEF CloseLogs, LiveIsAsked
  <2>3. LogIsOfSubject' /\ OneSystemFetch'
    BY <1>0, <1>6 DEF CloseLogs, LogIsOfSubject, DialogIsOfSubject, SystemLogIsOfLines, OneSystemFetch
  <2> QED BY <2>1, <2>2, <2>3 DEF LogsInv
<1>7. ASSUME NEW f \in fetches, LogArrives(f) PROVE LogsInv'
  <2>1. LogsTypeOK'
    BY <1>0, <1>7 DEF LogArrives, LogsTypeOK, Asked, Subjects
  <2>2. LiveIsAsked' /\ OneSystemFetch' /\ SystemLogIsOfLines'
    BY <1>0, <1>7 DEF LogArrives, LiveIsAsked, OneSystemFetch, LogIsOfSubject, SystemLogIsOfLines
  <2>3. DialogIsOfSubject'
    BY <1>0, <1>7 DEF LogArrives, LiveIsAsked, LogIsOfSubject, DialogIsOfSubject
  <2> QED BY <2>1, <2>2, <2>3 DEF LogsInv, LogIsOfSubject
<1>8. ASSUME NEW f \in sysFetches, SystemLogArrives(f) PROVE LogsInv'
  <2>1. LogsTypeOK'
    BY <1>0, <1>8 DEF SystemLogArrives, LogsTypeOK, Asked, Subjects
  <2>2. LiveIsAsked' /\ DialogIsOfSubject'
    BY <1>0, <1>8 DEF SystemLogArrives, LiveIsAsked, LogIsOfSubject, DialogIsOfSubject
  <2>3. OneSystemFetch' /\ SystemLogIsOfLines'
    BY <1>0, <1>8 DEF SystemLogArrives, OneSystemFetch, SystemLogIsOfLines
  <2> QED BY <2>1, <2>2, <2>3 DEF LogsInv, LogIsOfSubject
<1>9. CASE UNCHANGED logVars
  BY <1>0, <1>9 DEF LogsInv, LogsTypeOK, LogIsOfSubject, DialogIsOfSubject, SystemLogIsOfLines,
                    LiveIsAsked, OneSystemFetch, Asked, Subjects
<1> QED BY <1>1, <1>2, <1>3, <1>4, <1>5, <1>6, <1>7, <1>8, <1>9 DEF LogsNext

-----------------------------------------------------------------------------

(* The rows of an answer: LIMIT and OFFSET pick each job once.             *)

LEMMA FinitePrefix == \A n \in Nat : IsFiniteSet(1 .. n)
  BY FS_Interval

LEMMA MatchingFacts ==
  ASSUME HistoryTypeOK, NEW app
  PROVE  /\ Matching(app) \subseteq Nat /\ Matching(app) \subseteq DOMAIN srvJobs
         /\ IsFiniteSet(Matching(app)) /\ CountOf(app) \in Nat
<1>1. DOMAIN srvJobs = 1 .. Len(srvJobs) /\ Len(srvJobs) \in Nat
  BY DEF HistoryTypeOK
<1>2. IsFiniteSet(1 .. Len(srvJobs))
  BY <1>1, FinitePrefix
<1>3. Matching(app) \in SUBSET (1 .. Len(srvJobs))
  BY <1>1 DEF Matching
<1>4. IsFiniteSet(Matching(app))
  BY <1>2, <1>3, FS_Subset
<1> QED BY <1>1, <1>3, <1>4, FS_CardinalityType DEF CountOf

(* The rows newer than a matching one are 0 to count - 1 in number, and    *)
(* differ in number from row to row: so every number occurs.               *)
LEMMA EveryOffset ==
  ASSUME HistoryTypeOK, NEW app, NEW offset \in 0 .. (CountOf(app) - 1)
  PROVE  \E n \in Matching(app) : Cardinality(Newer(app, n)) = offset
<1> DEFINE M == Matching(app)
           N == CountOf(app)
           T == 0 .. (N - 1)
           f == [n \in M |-> Cardinality(Newer(app, n))]
<1>1. M \subseteq Nat /\ IsFiniteSet(M) /\ N \in Nat /\ N = Cardinality(M)
  BY MatchingFacts DEF CountOf
<1>2. ASSUME NEW n \in M
      PROVE  IsFiniteSet(Newer(app, n)) /\ Cardinality(Newer(app, n)) \in T
  <2>1. IsFiniteSet(M \ {n}) /\ Cardinality(M \ {n}) = N - 1
    BY <1>1, FS_RemoveElement
  <2>2. Newer(app, n) \in SUBSET (M \ {n})
    BY <1>1 DEF Newer
  <2>3. IsFiniteSet(Newer(app, n)) /\ Cardinality(Newer(app, n)) <= N - 1
    BY <2>1, <2>2, FS_Subset
  <2> QED BY <1>1, <2>3, FS_CardinalityType
<1>3. ASSUME NEW m \in M, NEW n \in M, m < n
      PROVE  Cardinality(Newer(app, m)) # Cardinality(Newer(app, n))
  <2>1. Newer(app, n) \in SUBSET Newer(app, m)
    BY <1>1, <1>3 DEF Newer
  <2>2. n \in Newer(app, m) /\ n \notin Newer(app, n)
    BY <1>1, <1>3 DEF Newer
  <2> QED BY <1>2, <2>1, <2>2, FS_Subset
<1>4. ASSUME NEW m \in M, NEW n \in M, f[m] = f[n] PROVE m = n
  BY <1>1, <1>3, <1>4
<1>5. f \in [M -> T]
  BY <1>2
<1>6. f \in Injection(M, T)
  BY <1>4, <1>5 DEF Injection, IsInjective
<1>7. IsFiniteSet(T) /\ Cardinality(T) = N
  BY <1>1, FS_Interval
<1>8. f \in Surjection(M, T)
  BY <1>1, <1>6, <1>7, FS_Injection
<1> QED BY <1>8 DEF Surjection

OncePer(s) == \A m, n \in DOMAIN s : s[m].id = s[n].id => m = n

LEMMA RowsOfFacts ==
  ASSUME HistoryTypeOK, NEW of \in Places
  PROVE  /\ RowsOf(of) \in Seq(Job)
         /\ OncePer(srvJobs) => OncePer(RowsOf(of))
<1> DEFINE app == of.app
           count == CountOf(app)
           offset == (of.page - 1) * PageSize
           left == IF offset < count THEN count - offset ELSE 0
           len == IF left < PageSize THEN left ELSE PageSize
           at(k) == CHOOSE n \in Matching(app) : Cardinality(Newer(app, n)) = offset + k - 1
<1>1. offset \in Nat
  <2>1. of.page - 1 \in Nat /\ PageSize \in Nat
    BY HistoryAssumption DEF Places
  <2> QED BY <2>1
<1>2. count \in Nat
  BY MatchingFacts
<1> HIDE DEF offset, count
<1>3. len \in Nat /\ \A k \in 1 .. len : offset + k - 1 \in 0 .. (count - 1)
  BY <1>1, <1>2, HistoryAssumption
<1>4. ASSUME NEW k \in 1 .. len
      PROVE  at(k) \in Matching(app) /\ Cardinality(Newer(app, at(k))) = offset + k - 1
  <2>1. \E n \in Matching(app) : Cardinality(Newer(app, n)) = offset + k - 1
    BY <1>3, EveryOffset DEF count
  <2> QED BY <2>1
<1>5. RowsOf(of) = [k \in 1 .. len |-> srvJobs[at(k)]]
  BY DEF RowsOf, RowAt, offset, count
<1> HIDE DEF len, at, app
<1>6. \A k \in 1 .. len : srvJobs[at(k)] \in Job
  BY <1>4, MatchingFacts DEF HistoryTypeOK
<1>7. RowsOf(of) \in Seq(Job)
  BY <1>3, <1>5, <1>6
<1>8. ASSUME OncePer(srvJobs), NEW k \in 1 .. len, NEW l \in 1 .. len,
             srvJobs[at(k)].id = srvJobs[at(l)].id
      PROVE  k = l
  <2>1. at(k) = at(l)
    BY <1>4, <1>8, MatchingFacts DEF OncePer
  <2> QED BY <1>1, <1>4, <2>1
<1>9. OncePer(srvJobs) => OncePer(RowsOf(of))
  BY <1>5, <1>8 DEF OncePer
<1> QED BY <1>7, <1>9

(* More rows never make fewer pages.                                       *)
LEMMA DivBounds ==
  ASSUME NEW m \in Nat, NEW p \in Nat \ {0}
  PROVE  m \div p \in Nat /\ p * (m \div p) <= m /\ m < p * (m \div p) + p
  OBVIOUS

LEMMA DivMonotonic ==
  ASSUME NEW m \in Nat, NEW n \in Nat, m <= n, NEW p \in Nat \ {0}
  PROVE  m \div p <= n \div p
<1> DEFINE x == m \div p
           y == n \div p
<1>1. x \in Nat /\ y \in Nat /\ p * x <= m /\ n < p * y + p
  BY DivBounds
<1> HIDE DEF x, y
<1> SUFFICES ASSUME x >= y + 1 PROVE FALSE
  BY <1>1 DEF x, y
<1>2. p * x >= p * (y + 1)
  BY <1>1
<1>3. p * (y + 1) = p * y + p
  BY <1>1
<1> QED BY <1>1, <1>2, <1>3

LEMMA PagesOfFacts ==
  ASSUME NEW n \in Nat
  PROVE  PagesOf(n) \in Nat /\ PagesOf(n) >= 1 /\ \A m \in Nat : m <= n => PagesOf(m) <= PagesOf(n)
<1>1. \A m \in Nat \ {0} : (m - 1) \div PageSize \in Nat
  BY DivBounds, HistoryAssumption
<1>2. ASSUME NEW m \in Nat \ {0}, m <= n PROVE (m - 1) \div PageSize <= (n - 1) \div PageSize
  <2>1. m - 1 \in Nat /\ n - 1 \in Nat /\ m - 1 <= n - 1
    BY <1>2
  <2> QED BY <2>1, DivMonotonic, HistoryAssumption
<1> QED BY <1>1, <1>2 DEF PagesOf

-----------------------------------------------------------------------------

(* What the page keeps.  No answer and no list has a job twice.  An answer *)
(* counts no more jobs than there are, unless some were deleted since it   *)
(* did; so the pages it counts are there when one of them is chosen, and   *)
(* the page that was chosen is there when an answer for the same           *)
(* application arrives.                                                    *)
RowsInv == OncePer(srvJobs) /\ OncePer(rows) /\ \A l \in loads : OncePer(l.rows)
CountsInv ==
  /\ \A l \in loads : l.at # "sent" /\ ~l.old => l.total <= CountOf(l.of.app)
  /\ loads = {} /\ ~strayed => total <= CountOf(filter)
PageInv ==
  ~misled =>
    /\ pageNo <= PagesOf(CountOf(filter))
    /\ \A l \in loads : l.at # "sent" /\ ~l.old /\ l.of.app = filter => pageNo <= PagesOf(l.total)
    /\ ~strayed => pageNo <= PagesOf(total)

HistoryInv == HistoryTypeOK /\ RowsInv /\ CountsInv /\ PageInv

LEMMA NewLoad ==
  ASSUME HistoryInv, NEW of \in Places
  PROVE  \A l \in WithLoad(of) :
           /\ l \in Load
           /\ OncePer(l.rows)
           /\ l.at # "sent" => l \in loads
<1> DEFINE new == Request(of)
<1>1. <<>> \in Seq(Job)
  OBVIOUS
<1>2. new \in Load /\ new.at = "sent" /\ OncePer(new.rows)
  BY <1>1 DEF Request, OncePer, Load
<1> HIDE DEF new
<1> QED BY <1>2 DEF WithLoad, new, HistoryInv, HistoryTypeOK, RowsInv

LEMMA HistoryInitInv == HistoryInit => HistoryInv
<1> SUFFICES ASSUME HistoryInit PROVE HistoryInv
  OBVIOUS
<1> USE HistoryAssumption
<1>1. srvJobs \in Seq(Job) /\ OncePer(srvJobs)
  <2> DEFINE S == [id : {PastJobs[n].id : n \in DOMAIN PastJobs}, app : Owners,
                   status : {"ended", "canceled"}]
  <2>1. S \subseteq Job
    BY DEF Job, Ids, Statuses
  <2>2. PastJobs \in Seq(S)
    OBVIOUS
  <2> HIDE DEF S
  <2>3. PastJobs \in Seq(Job)
    BY <2>1, <2>2
  <2> QED BY <2>3 DEF HistoryInit, OncePer
<1>2. rows \in Seq(Job) /\ OncePer(rows)
  BY DEF HistoryInit, OncePer
<1>3. Place \in Places /\ filter = AnyApp /\ pageNo = 1
  BY DEF HistoryInit, Place, Places
<1>4. /\ loads \subseteq Load
      /\ \A l \in loads : l.at = "sent" /\ OncePer(l.rows)
  BY <1>2, <1>3 DEF HistoryInit, Request, Load, Places, OncePer
<1>5. HistoryTypeOK
  <2>1. acts \in 0 .. MaxActs
    BY DEF HistoryInit
  <2>2. {failed, strayed, misled} \subseteq BOOLEAN
    BY DEF HistoryInit
  <2> QED BY <1>1, <1>2, <1>3, <1>4, <2>1, <2>2 DEF HistoryInit, HistoryTypeOK
<1>6. \A n \in Nat : PagesOf(n) >= 1
  BY PagesOfFacts
<1>7. CountOf(filter) \in Nat
  BY <1>5, MatchingFacts
<1>8. CountsInv
  BY <1>4 DEF HistoryInit, CountsInv
<1>9. PageInv
  BY <1>3, <1>4, <1>6, <1>7 DEF HistoryInit, PageInv
<1> QED BY <1>1, <1>2, <1>4, <1>5, <1>8, <1>9 DEF HistoryInv, RowsInv

(* The operator's choice.                                                  *)
LEMMA ChooseStep ==
  ASSUME HistoryInv, NEW of \in Places, Choose(of), misled' \in BOOLEAN,
         loads' \subseteq Load,
         \A l \in loads' : OncePer(l.rows) /\ (l.at # "sent" => l \in loads),
         loads' # {},
         ~misled' => /\ of.page = 1 \/ \A l \in loads' : l.at = "sent"
                     /\ of.page <= PagesOf(CountOf(of.app))
                     /\ ~strayed => of.page <= PagesOf(total)
  PROVE  HistoryInv'
<1> USE DEF HistoryInv
<1>1. HistoryTypeOK'
  <2>1. acts' \in 0 .. MaxActs
    BY HistoryAssumption DEF Choose, Act, HistoryTypeOK
  <2>2. Place' \in Places
    BY DEF Choose, Place, Places
  <2> QED BY <2>1, <2>2 DEF Choose, HistoryTypeOK
<1>2. RowsInv'
  BY DEF Choose, RowsInv
<1>3. \A app : CountOf(app)' = CountOf(app)
  BY DEF Choose, CountOf, Matching
<1>4. CountsInv'
  BY <1>3 DEF CountsInv
<1>5. PageInv'
  <2> SUFFICES ASSUME ~misled' PROVE PageInv'
    BY DEF PageInv
  <2>1. pageNo' = of.page /\ filter' = of.app /\ total' = total /\ strayed' = strayed
    BY DEF Choose
  <2>2. ASSUME NEW l \in loads', l.at # "sent" PROVE of.page <= PagesOf(l.total)
    <3>1. l.total \in Nat
      BY <2>2 DEF Load
    <3> QED BY <2>2, <3>1, PagesOfFacts
  <2> QED BY <1>3, <2>1, <2>2 DEF PageInv
<1> QED BY <1>1, <1>2, <1>4, <1>5

LEMMA MatchingFactsNext == HistoryTypeOK' => \A app : CountOf(app)' \in Nat
<1> SUFFICES ASSUME HistoryTypeOK', NEW app PROVE CountOf(app)' \in Nat
  OBVIOUS
<1>1. DOMAIN srvJobs' = 1 .. Len(srvJobs') /\ Len(srvJobs') \in Nat
  BY DEF HistoryTypeOK
<1>2. Matching(app)' \in SUBSET (1 .. Len(srvJobs'))
  BY <1>1 DEF Matching
<1>3. IsFiniteSet(1 .. Len(srvJobs'))
  BY <1>1, FinitePrefix
<1>4. IsFiniteSet(Matching(app)')
  BY <1>2, <1>3, FS_Subset
<1> QED BY <1>4, FS_CardinalityType DEF CountOf

(* What a step keeps that loads no rows and shows none, while the history  *)
(* keeps its rows, gets a newer one, or has one change its status.         *)
LEMMA ServerStep ==
  ASSUME HistoryInv, HistoryTypeOK', OncePer(srvJobs)', OncePer(rows)',
         UNCHANGED <<filter, pageNo, total, strayed, misled>>,
         \A app : CountOf(app) <= CountOf(app)',
         \A l \in loads' : OncePer(l.rows) /\ (l.at # "sent" => l \in loads),
         loads' = {} => loads = {}
  PROVE  HistoryInv'
<1> USE DEF HistoryInv
<1>1. \A app : CountOf(app) \in Nat /\ CountOf(app)' \in Nat
  <2>1. \A app : CountOf(app) \in Nat
    BY MatchingFacts
  <2> QED BY <2>1, MatchingFactsNext
<1>2. RowsInv'
  BY DEF RowsInv
<1>3. CountsInv'
  BY <1>1 DEF CountsInv, HistoryTypeOK, Load
<1>4. PageInv'
  <2> SUFFICES ASSUME ~misled PROVE PageInv'
    BY DEF PageInv
  <2>1. PagesOf(CountOf(filter)) \in Nat /\ PagesOf(CountOf(filter)) <= PagesOf(CountOf(filter)')
    BY <1>1, PagesOfFacts
  <2>2. PagesOf(CountOf(filter)') \in Nat /\ pageNo \in Nat
    BY <1>1, PagesOfFacts DEF HistoryTypeOK, Place, Places
  <2> QED BY <2>1, <2>2 DEF PageInv
<1> QED BY <1>2, <1>3, <1>4

LEMMA RowsArriveStep ==
  ASSUME HistoryInv, NEW l \in loads, RowsArrive(l)
  PROVE  HistoryInv'
<1> USE DEF HistoryInv
<1>1. l \in Load /\ OncePer(l.rows)
  BY DEF HistoryTypeOK, RowsInv
<1>2. HistoryTypeOK'
  BY <1>1 DEF RowsArrive, HistoryTypeOK, Load, Place
<1>3. RowsInv'
  BY <1>1 DEF RowsArrive, RowsInv
<1>4. \A app : CountOf(app)' = CountOf(app)
  BY DEF RowsArrive, CountOf, Matching
<1>5. CASE rows' = l.rows /\ total' = l.total /\ strayed' = (l.of # Place \/ l.old)
  <2>1. ~strayed' => l.of = Place /\ ~l.old
    BY <1>5, Zenon
  <2>2. ~strayed' => l.of.app = filter /\ ~l.old
    BY <2>1 DEF Place
  <2>3. l.at = "listed" /\ loads' = loads \ {l} /\ UNCHANGED <<filter, pageNo, misled>>
    BY DEF RowsArrive
  <2>4. CountsInv'
    BY <1>4, <1>5, <2>2, <2>3 DEF CountsInv
  <2>5. PageInv'
    BY <1>4, <1>5, <2>2, <2>3 DEF PageInv
  <2> QED BY <1>2, <1>3, <2>4, <2>5
<1>6. CASE strayed' = TRUE /\ UNCHANGED <<rows, total>>
  <2>1. CountsInv' /\ PageInv'
    BY <1>4, <1>6 DEF RowsArrive, CountsInv, PageInv
  <2> QED BY <1>2, <1>3, <2>1
<1> QED BY <1>5, <1>6 DEF RowsArrive

(* A statement of the server adds to what a request found.                 *)
LEMMA FoundStep ==
  ASSUME HistoryInv, NEW l \in loads, NEW answer \in Load, Found(l, answer),
         answer.of = l.of, answer.old = l.old, OncePer(answer.rows),
         answer.total = CountOf(l.of.app) \/ (l.at # "sent" /\ answer.total = l.total)
  PROVE  HistoryInv'
<1> USE DEF HistoryInv
<1>1. loads' = (loads \ {l}) \cup {answer}
  BY DEF Found
<1>2. HistoryTypeOK'
  BY <1>1 DEF Found, HistoryTypeOK, Place
<1>3. RowsInv'
  BY <1>1 DEF Found, RowsInv
<1>4. \A app : CountOf(app)' = CountOf(app) /\ CountOf(app) \in Nat
  BY MatchingFacts DEF Found, CountOf, Matching
<1>5. CountsInv'
  <2>1. ~answer.old => answer.total <= CountOf(answer.of.app)
    BY <1>4 DEF CountsInv
  <2> QED BY <1>1, <1>4, <2>1 DEF Found, CountsInv
<1>6. PageInv'
  <2>1. ~misled /\ ~answer.old /\ answer.of.app = filter => pageNo <= PagesOf(answer.total)
    BY DEF PageInv
  <2> QED BY <1>1, <1>4, <2>1 DEF Found, PageInv
<1> QED BY <1>2, <1>3, <1>5, <1>6

LEMMA CountRowsStep ==
  ASSUME HistoryInv, NEW l \in loads, CountRows(l)
  PROVE  HistoryInv'
<1> DEFINE answer == [l EXCEPT !.at = "counted", !.total = CountOf(l.of.app)]
<1>1. l \in Load /\ OncePer(l.rows) /\ CountOf(l.of.app) \in Nat
  BY MatchingFacts DEF HistoryInv, HistoryTypeOK, RowsInv
<1>2. /\ answer \in Load /\ answer.of = l.of /\ answer.old = l.old /\ answer.rows = l.rows
      /\ answer.total = CountOf(l.of.app)
  BY <1>1 DEF Load
<1>3. Found(l, answer)
  BY DEF CountRows
<1> HIDE DEF answer
<1> QED BY <1>1, <1>2, <1>3, FoundStep

LEMMA ListRowsStep ==
  ASSUME HistoryInv, NEW l \in loads, ListRows(l)
  PROVE  HistoryInv'
<1> DEFINE answer == [l EXCEPT !.at = "listed", !.rows = RowsOf(l.of)]
<1>1. l \in Load /\ l.of \in Places /\ l.at = "counted"
  BY DEF HistoryInv, HistoryTypeOK, Load, ListRows
<1>2. RowsOf(l.of) \in Seq(Job) /\ OncePer(RowsOf(l.of))
  BY <1>1, RowsOfFacts DEF HistoryInv, RowsInv
<1>3. /\ answer \in Load /\ answer.of = l.of /\ answer.old = l.old
      /\ answer.rows = RowsOf(l.of) /\ answer.total = l.total
  BY <1>1, <1>2 DEF Load
<1>4. Found(l, answer)
  BY DEF ListRows
<1> HIDE DEF answer
<1> QED BY <1>1, <1>2, <1>3, <1>4, FoundStep

LEMMA ChooseFilterStep ==
  ASSUME HistoryInv, NEW app \in Owners \cup {AnyApp}, ChooseFilter(app)
  PROVE  HistoryInv'
<1> USE DEF HistoryInv
<1> DEFINE before == [app |-> app, page |-> pageNo]
           of == [app |-> app, page |-> 1]
<1>1. before \in Places /\ of \in Places
  BY DEF HistoryTypeOK, Place, Places
<1>2. Choose(of) /\ misled' \in BOOLEAN /\ loads' = WithLoad(before) \cup WithLoad(of)
  BY DEF ChooseFilter, Choose, HistoryTypeOK
<1>3. /\ loads' \subseteq Load
      /\ \A l \in loads' : OncePer(l.rows) /\ (l.at # "sent" => l \in loads)
  BY <1>1, <1>2, NewLoad
<1>4. loads' # {}
  BY <1>2 DEF WithLoad
<1>5. of.page = 1 /\ PagesOf(CountOf(app)) >= 1 /\ PagesOf(total) >= 1
  BY MatchingFacts, PagesOfFacts DEF HistoryTypeOK
<1>6. /\ of.page <= PagesOf(CountOf(of.app)) /\ of.page <= PagesOf(total)
  BY <1>5, MatchingFacts, PagesOfFacts DEF HistoryTypeOK
<1> QED BY <1>1, <1>2, <1>3, <1>4, <1>5, <1>6, ChooseStep

LEMMA ChoosePageStep ==
  ASSUME HistoryInv, NEW n \in {pageNo - 1, pageNo + 1}, ChoosePage(n)
  PROVE  HistoryInv'
<1> USE DEF HistoryInv
<1> DEFINE of == [app |-> filter, page |-> n]
<1>1. of \in Places /\ n \in Nat /\ pageNo \in Nat
  BY DEF ChoosePage, HistoryTypeOK, Place, Places
<1>2. /\ Choose(of) /\ misled' \in BOOLEAN /\ loads' = WithLoad(of)
      /\ misled' = (n > 1 /\ (misled \/ strayed \/ loads # {}))
  BY DEF ChoosePage, Choose, HistoryTypeOK
<1>3. /\ loads' \subseteq Load
      /\ \A l \in loads' : OncePer(l.rows) /\ (l.at # "sent" => l \in loads)
  BY <1>1, <1>2, NewLoad
<1>4. loads' # {}
  BY <1>2 DEF WithLoad
<1>5. ASSUME n > 1, ~misled'
      PROVE  /\ \A l \in loads' : l.at = "sent"
             /\ n <= PagesOf(CountOf(filter)) /\ n <= PagesOf(total)
  <2>1. ~misled /\ ~strayed /\ loads = {}
    BY <1>2, <1>5
  <2>2. n <= PagesOf(total)
    <3>1. PagesOf(total) \in Nat /\ pageNo <= PagesOf(total)
      BY <2>1, PagesOfFacts DEF PageInv, HistoryTypeOK
    <3> QED BY <1>1, <3>1 DEF ChoosePage, TotalPages
  <2>3. total <= CountOf(filter) /\ total \in Nat /\ CountOf(filter) \in Nat
    BY <2>1, MatchingFacts DEF CountsInv, HistoryTypeOK
  <2>4. /\ PagesOf(total) <= PagesOf(CountOf(filter))
        /\ PagesOf(total) \in Nat /\ PagesOf(CountOf(filter)) \in Nat
    BY <2>3, PagesOfFacts
  <2> QED BY <1>1, <1>3, <2>1, <2>2, <2>4
<1>6. n >= 1 /\ PagesOf(CountOf(filter)) >= 1 /\ PagesOf(total) >= 1
  <2>1. n >= 1
    BY <1>1 DEF ChoosePage
  <2>2. CountOf(filter) \in Nat /\ total \in Nat
    BY MatchingFacts DEF HistoryTypeOK
  <2> QED BY <2>1, <2>2, PagesOfFacts
<1>7. ~misled' => /\ of.page = 1 \/ \A l \in loads' : l.at = "sent"
                  /\ of.page <= PagesOf(CountOf(of.app))
                  /\ ~strayed => of.page <= PagesOf(total)
  <2>1. CASE n > 1
    BY <1>5, <2>1
  <2>2. CASE n = 1
    BY <1>6, <2>2
  <2> QED BY <1>1, <1>6, <2>1, <2>2
<1> QED BY <1>1, <1>2, <1>3, <1>4, <1>7, ChooseStep

(* A job that ends or is canceled keeps its place and its application.     *)
LEMMA StatusChange ==
  ASSUME HistoryTypeOK, OncePer(srvJobs), NEW n \in DOMAIN srvJobs, NEW status \in Statuses,
         srvJobs' = [srvJobs EXCEPT ![n].status = status], removed' = removed
  PROVE  /\ srvJobs' \in Seq(Job) /\ OncePer(srvJobs')
         /\ \A app : CountOf(app) <= CountOf(app)'
<1>1. srvJobs \in Seq(Job) /\ [srvJobs[n] EXCEPT !.status = status] \in Job
  <2>1. srvJobs \in Seq(Job) /\ srvJobs[n] \in Job
    BY DEF HistoryTypeOK
  <2> QED BY <2>1 DEF Job
<1>2. /\ srvJobs' \in Seq(Job) /\ DOMAIN srvJobs' = DOMAIN srvJobs
      /\ \A m \in DOMAIN srvJobs : srvJobs'[m].id = srvJobs[m].id /\ srvJobs'[m].app = srvJobs[m].app
  <2>1. srvJobs' = [srvJobs EXCEPT ![n] = [srvJobs[n] EXCEPT !.status = status]]
    OBVIOUS
  <2>2. srvJobs' \in Seq(Job) /\ DOMAIN srvJobs' = DOMAIN srvJobs
    BY <1>1, <2>1
  <2>3. /\ [srvJobs[n] EXCEPT !.status = status].id = srvJobs[n].id
        /\ [srvJobs[n] EXCEPT !.status = status].app = srvJobs[n].app
    BY <1>1 DEF Job
  <2> QED BY <1>1, <2>1, <2>2, <2>3
<1>3. \A app : Matching(app)' = Matching(app)
  BY <1>2 DEF Matching
<1>4. \A app : CountOf(app)' = CountOf(app) /\ CountOf(app) \in Nat
  BY <1>3, MatchingFacts DEF CountOf
<1> QED BY <1>2, <1>4 DEF OncePer

LEMMA RetryQueuedStep ==
  ASSUME HistoryInv, NEW p \in posts, RetryQueued(p)
  PROVE  HistoryInv'
<1> USE DEF HistoryInv
<1> DEFINE row == [p.job EXCEPT !.id = p.answer, !.status = "pending"]
<1>1. /\ p.job \in Job /\ p.answer \in RetryJobs /\ p.then \in Places
      /\ p.job.id \in Ids
  BY DEF RetryQueued, HistoryTypeOK, Job
<1>2. row \in Job /\ row.id = p.answer
  BY <1>1 DEF Job, Ids, Statuses
<1> HIDE DEF row
<1>3. rows' = WithRow(row) /\ rows \in Seq(Job)
  BY DEF RetryQueued, row, HistoryTypeOK
<1>4. rows' \in Seq(Job) /\ OncePer(rows')
  <2>1. CASE \E n \in DOMAIN rows : rows[n].id = row.id
    BY <1>3, <2>1 DEF WithRow, RowsInv
  <2>2. CASE ~ \E n \in DOMAIN rows : rows[n].id = row.id
    <3>1. rows' = <<row>> \o rows
      BY <1>3, <2>2 DEF WithRow
    <3>2. /\ rows' \in Seq(Job) /\ DOMAIN rows' = 1 .. (Len(rows) + 1) /\ rows'[1] = row
          /\ \A n \in DOMAIN rows' : n = 1 \/ (n - 1 \in DOMAIN rows /\ rows'[n] = rows[n - 1])
      BY <1>2, <1>3, <3>1
    <3>3. \A m, n \in DOMAIN rows' : rows'[m].id = rows'[n].id => m = n
      BY <1>3, <2>2, <3>2 DEF RowsInv, OncePer
    <3> QED BY <3>2, <3>3 DEF OncePer
  <2> QED BY <2>1, <2>2
<1>5. retried' \subseteq Ids /\ optimistic' \cup added' \subseteq RetryJobs
  BY <1>1 DEF RetryQueued, HistoryTypeOK
<1>6. timers' \subseteq [job : RetryJobs, then : Places]
  BY <1>1 DEF RetryQueued, HistoryTypeOK
<1>7. HistoryTypeOK'
  BY <1>4, <1>5, <1>6 DEF RetryQueued, HistoryTypeOK, Place
<1>8. \A app : CountOf(app)' = CountOf(app) /\ CountOf(app) \in Nat
  BY MatchingFacts DEF RetryQueued, CountOf, Matching
<1> QED BY <1>4, <1>7, <1>8, ServerStep DEF RetryQueued, RowsInv

LEMMA ReloadStep ==
  ASSUME HistoryInv, NEW of \in Places, loads' = WithLoad(of),
         UNCHANGED <<srvJobs, removed, filter, pageNo, rows, total, retried, acts, added, failed, strayed, misled>>,
         posts' \subseteq posts, timers' \subseteq timers, optimistic' \subseteq optimistic
  PROVE  HistoryInv'
<1> USE DEF HistoryInv
<1>1. HistoryTypeOK'
  BY NewLoad DEF HistoryTypeOK, Place
<1>2. \A app : CountOf(app)' = CountOf(app) /\ CountOf(app) \in Nat
  BY MatchingFacts DEF CountOf, Matching
<1>3. loads' # {}
  BY DEF WithLoad
<1> QED BY <1>1, <1>2, <1>3, NewLoad, ServerStep DEF RowsInv

LEMMA ServePostStep ==
  ASSUME HistoryInv, NEW p \in posts, ServePost(p)
  PROVE  HistoryInv'
<1> USE DEF HistoryInv
<1>0. /\ p \in [kind : {"retry", "cancel"}, job : Job, then : Places,
                answer : {"none", "ok", "error"} \cup RetryJobs]
      /\ srvJobs \in Seq(Job) /\ OncePer(srvJobs) /\ removed' = removed
  BY DEF ServePost, HistoryTypeOK, RowsInv
<1>1. ASSUME NEW answer \in {"none", "ok", "error"} \cup RetryJobs, Answer(p, answer),
             srvJobs' \in Seq(Job), OncePer(srvJobs'),
             \A app : CountOf(app) <= CountOf(app)'
      PROVE  HistoryInv'
  <2>1. [p EXCEPT !.answer = answer] \in [kind : {"retry", "cancel"}, job : Job, then : Places,
                                          answer : {"none", "ok", "error"} \cup RetryJobs]
    BY <1>0
  <2>2. HistoryTypeOK'
    BY <1>1, <2>1 DEF ServePost, Answer, HistoryTypeOK, Place
  <2> QED BY <1>1, <2>2, ServerStep DEF ServePost, RowsInv
<1>2. CASE UNCHANGED <<srvJobs, removed>>
  <2>1. PICK answer \in {"none", "ok", "error"} \cup RetryJobs : Answer(p, answer)
    BY <1>2 DEF ServePost
  <2>2. \A app : CountOf(app)' = CountOf(app) /\ CountOf(app) \in Nat
    BY <1>2, MatchingFacts DEF CountOf, Matching
  <2> QED BY <1>0, <1>1, <1>2, <2>1, <2>2
<1>3. ASSUME NEW j \in RetryJobs \ Existing, Answer(p, j) \/ Answer(p, "error"),
             srvJobs' = Append(srvJobs, [id |-> j, app |-> p.job.app, status |-> "pending"])
      PROVE  HistoryInv'
  <2> DEFINE job == [id |-> j, app |-> p.job.app, status |-> "pending"]
  <2>1. job \in Job /\ job.id = j
    BY <1>0 DEF Job, Ids, Statuses
  <2> HIDE DEF job
  <2>2. srvJobs' = Append(srvJobs, job)
    BY <1>3 DEF job
  <2>3. /\ srvJobs' \in Seq(Job) /\ DOMAIN srvJobs' = DOMAIN srvJobs \cup {Len(srvJobs) + 1}
        /\ \A n \in DOMAIN srvJobs : srvJobs'[n] = srvJobs[n] /\ n # Len(srvJobs) + 1
        /\ srvJobs'[Len(srvJobs) + 1] = job
    BY <1>0, <2>1, <2>2
  <2>4. \A n \in DOMAIN srvJobs : srvJobs[n].id # j
    BY DEF Existing
  <2>5. OncePer(srvJobs')
    BY <1>0, <2>1, <2>3, <2>4 DEF OncePer
  <2>6. ASSUME NEW app PROVE CountOf(app) <= CountOf(app)'
    <3>1. Matching(app) \in SUBSET Matching(app)'
      BY <1>0, <2>3 DEF Matching
    <3>2. IsFiniteSet(Matching(app)')
      <4>1. Matching(app)' \in SUBSET (Matching(app) \cup {Len(srvJobs) + 1})
        BY <1>0, <2>3 DEF Matching
      <4>2. IsFiniteSet(Matching(app) \cup {Len(srvJobs) + 1})
        BY MatchingFacts, FS_AddElement
      <4> QED BY <4>1, <4>2, FS_Subset
    <3> QED BY <3>1, <3>2, FS_Subset DEF CountOf
  <2> QED BY <1>1, <1>3, <2>3, <2>5, <2>6
<1>4. ASSUME NEW n \in DOMAIN srvJobs, srvJobs' = [srvJobs EXCEPT ![n].status = "canceled"],
             Answer(p, "ok") \/ Answer(p, "error")
      PROVE  HistoryInv'
  BY <1>0, <1>1, <1>4, StatusChange DEF Statuses
<1>5. \A app : Matching(app) \subseteq DOMAIN srvJobs
  BY MatchingFacts
<1> QED BY <1>0, <1>2, <1>3, <1>4, <1>5 DEF ServePost

LEMMA JobEndsStep ==
  ASSUME HistoryInv, NEW n \in DOMAIN srvJobs, JobEnds(n)
  PROVE  HistoryInv'
<1> USE DEF HistoryInv
<1>1. PICK status \in Statuses : srvJobs' = [srvJobs EXCEPT ![n].status = status] /\ removed' = removed
  BY DEF JobEnds
<1>2. /\ srvJobs' \in Seq(Job) /\ OncePer(srvJobs')
      /\ \A app : CountOf(app) <= CountOf(app)'
  BY <1>1, StatusChange DEF RowsInv
<1>3. HistoryTypeOK'
  BY <1>2 DEF JobEnds, HistoryTypeOK, Place
<1> QED BY <1>2, <1>3, ServerStep DEF JobEnds, RowsInv

(* Deleting jobs leaves what was counted of other applications alone; what *)
(* was counted of theirs is old, and of their pages only the first is one  *)
(* that the page may still rely on.                                        *)
LEMMA DeleteAppStep ==
  ASSUME HistoryInv, NEW app \in Owners, DeleteApp(app)
  PROVE  HistoryInv'
<1> USE DEF HistoryInv
<1> DEFINE gone == {srvJobs[n].id : n \in Matching(app)}
           touched(a) == a \in {AnyApp, app}
           aged(l) == [l EXCEPT !.old = @ \/ (l.at # "sent" /\ l.of.app \in {AnyApp, app})]
<1>1. /\ removed' = removed \cup gone /\ loads' = {aged(l) : l \in loads}
      /\ strayed' = (strayed \/ touched(filter))
      /\ misled' = (misled \/ (pageNo > 1 /\ touched(filter)))
      /\ UNCHANGED <<srvJobs, filter, pageNo, rows, total, optimistic, retried, posts, timers, added, failed>>
  BY DEF DeleteApp
<1>2. gone \subseteq Ids
  <2>1. \A n \in DOMAIN srvJobs : srvJobs[n] \in Job
    BY DEF HistoryTypeOK
  <2> QED BY <2>1 DEF Matching, Job, gone
<1>3. ASSUME NEW l \in loads
      PROVE  /\ aged(l) \in Load /\ aged(l).rows = l.rows /\ aged(l).at = l.at
             /\ aged(l).of = l.of /\ aged(l).total = l.total
             /\ ~aged(l).old => ~l.old /\ (l.at # "sent" => ~touched(l.of.app))
  <2>1. l \in Load
    BY DEF HistoryTypeOK
  <2>2. (l.old \/ (l.at # "sent" /\ l.of.app \in {AnyApp, app})) \in BOOLEAN
    OBVIOUS
  <2> QED BY <2>1, <2>2 DEF Load
<1> HIDE DEF gone, aged
<1>4. HistoryTypeOK'
  <2>1. acts' \in 0 .. MaxActs
    BY HistoryAssumption DEF DeleteApp, HistoryTypeOK
  <2>2. loads' \subseteq Load
    BY <1>1, <1>3
  <2>3. {strayed', misled'} \subseteq BOOLEAN
    BY <1>1
  <2> QED BY <1>1, <1>2, <2>1, <2>2, <2>3 DEF HistoryTypeOK, Place
<1>5. RowsInv'
  BY <1>1, <1>3 DEF RowsInv
<1>6. ASSUME NEW a \in Owners \cup {AnyApp}, ~touched(a) PROVE CountOf(a)' = CountOf(a)
  <2>1. a \in Owners /\ a # AnyApp /\ a # app
    BY <1>6
  <2>2. ASSUME NEW n \in DOMAIN srvJobs, srvJobs[n].app = a PROVE srvJobs[n].id \notin gone
    <3> SUFFICES ASSUME NEW m \in Matching(app), srvJobs[n].id = srvJobs[m].id PROVE FALSE
      BY DEF gone
    <3>1. m = n
      BY MatchingFacts DEF RowsInv, OncePer
    <3>2. app \in {AnyApp, srvJobs[m].app} /\ app # AnyApp
      BY HistoryAssumption DEF Matching
    <3> QED BY <2>1, <2>2, <3>1, <3>2
  <2>3. Matching(a)' = Matching(a)
    BY <1>1, <2>1, <2>2 DEF Matching
  <2> QED BY <2>3 DEF CountOf
<1>7. filter \in Owners \cup {AnyApp} /\ pageNo \in Nat \ {0}
  BY DEF HistoryTypeOK, Place, Places
<1>8. CountsInv'
  <2>1. ASSUME NEW k \in loads', k.at # "sent", ~k.old PROVE k.total <= CountOf(k.of.app)'
    <3>1. PICK l \in loads : k = aged(l)
      BY <1>1
    <3>2. k.of.app = l.of.app /\ k.total = l.total /\ l.at # "sent" /\ ~l.old /\ ~touched(l.of.app)
      BY <1>3, <2>1, <3>1
    <3>3. l.of.app \in Owners \cup {AnyApp}
      BY DEF HistoryTypeOK, Load, Places
    <3>4. CountOf(l.of.app)' = CountOf(l.of.app)
      BY <1>6, <3>2, <3>3
    <3>5. l.total <= CountOf(l.of.app)
      BY <3>2 DEF CountsInv
    <3> QED BY <3>2, <3>4, <3>5
  <2>2. ASSUME loads' = {}, ~strayed' PROVE total' <= CountOf(filter)'
    <3>1. loads = {} /\ ~strayed /\ ~touched(filter) /\ total' = total /\ filter' = filter
      BY <1>1, <2>2
    <3>2. CountOf(filter)' = CountOf(filter)
      BY <1>6, <1>7, <3>1
    <3> QED BY <3>1, <3>2 DEF CountsInv
  <2> QED BY <2>1, <2>2 DEF CountsInv
<1>9. PageInv'
  <2> SUFFICES ASSUME ~misled' PROVE PageInv'
    BY DEF PageInv
  <2>0. ~misled /\ ~(pageNo > 1 /\ touched(filter))
    BY <1>1, Zenon
  <2>1. CASE ~touched(filter)
    <3>1. ~misled /\ (~strayed' => ~strayed) /\ CountOf(filter)' = CountOf(filter)
      <4>1. CountOf(filter)' = CountOf(filter)
        BY <1>1, <1>6, <1>7, <2>1
      <4>2. ~strayed' => ~strayed
        BY <1>1, Zenon
      <4> QED BY <2>0, <4>1, <4>2
    <3>2. ASSUME NEW l \in loads, l.at # "sent", ~aged(l).old, l.of.app = filter
          PROVE  pageNo <= PagesOf(l.total)
      BY <1>3, <3>1, <3>2 DEF PageInv
    <3>3. ASSUME NEW k \in loads', k.at # "sent", ~k.old, k.of.app = filter
          PROVE  pageNo <= PagesOf(k.total)
      BY <1>1, <1>3, <3>2, <3>3
    <3> QED BY <1>1, <3>1, <3>3 DEF PageInv
  <2>2. CASE touched(filter)
    <3>1. pageNo = 1
      BY <1>7, <2>0, <2>2
    <3>2. CountOf(filter)' \in Nat /\ total \in Nat /\ \A k \in loads' : k.total \in Nat
      BY <1>4, MatchingFactsNext DEF HistoryTypeOK, Load
    <3>3. PagesOf(CountOf(filter)') >= 1 /\ PagesOf(total) >= 1 /\ \A k \in loads' : PagesOf(k.total) >= 1
      BY <3>2, PagesOfFacts
    <3> QED BY <1>1, <3>1, <3>3 DEF PageInv
  <2> QED BY <2>1, <2>2
<1> QED BY <1>4, <1>5, <1>8, <1>9

LEMMA HistoryStep == HistoryInv /\ [HistoryNext]_historyVars => HistoryInv'
<1> SUFFICES ASSUME HistoryInv, [HistoryNext]_historyVars PROVE HistoryInv'
  OBVIOUS
<1>0. HistoryTypeOK
  BY DEF HistoryInv
<1>1. CASE HistoryOperator
  <2>1. ASSUME NEW job \in Job, Retry(job) \/ Cancel(job) PROVE HistoryInv'
    <3>1. PICK kind \in {"retry", "cancel"} : Post(job, kind)
      BY <2>1 DEF Retry, Cancel
    <3> DEFINE p == [kind |-> kind, job |-> job, then |-> Place, answer |-> "none"]
    <3>2. p \in [kind : {"retry", "cancel"}, job : Job, then : Places,
                 answer : {"none", "ok", "error"} \cup RetryJobs]
      BY <1>0 DEF HistoryTypeOK
    <3>3. acts' \in 0 .. MaxActs
      BY <1>0, <3>1, HistoryAssumption DEF Post, Act, HistoryTypeOK
    <3>4. HistoryTypeOK'
      BY <1>0, <3>1, <3>2, <3>3 DEF Post, HistoryTypeOK, Place
    <3>5. \A app : CountOf(app)' = CountOf(app) /\ CountOf(app) \in Nat
      BY <1>0, <3>1, MatchingFacts DEF Post, CountOf, Matching
    <3> QED BY <3>1, <3>4, <3>5, ServerStep DEF Post, HistoryInv, RowsInv
  <2>2. \A n \in DOMAIN rows : rows[n] \in Job
    BY <1>0 DEF HistoryTypeOK
  <2> QED BY <1>1, <2>1, <2>2, ChooseFilterStep, ChoosePageStep DEF HistoryOperator
<1>2. CASE HistoryAnswers
  <2>1. ASSUME NEW p \in posts, CancelAccepted(p) PROVE HistoryInv'
    <3>1. p.then \in Places
      BY <1>0 DEF HistoryTypeOK
    <3> QED BY <2>1, <3>1, ReloadStep DEF CancelAccepted
  <2>2. ASSUME NEW p \in posts, Refused(p) PROVE HistoryInv'
    <3>1. HistoryTypeOK'
      BY <1>0, <2>2 DEF Refused, HistoryTypeOK, Place
    <3>2. \A app : CountOf(app)' = CountOf(app) /\ CountOf(app) \in Nat
      BY <1>0, <2>2, MatchingFacts DEF Refused, CountOf, Matching
    <3> QED BY <2>2, <3>1, <3>2, ServerStep DEF Refused, HistoryInv, RowsInv
  <2>3. ASSUME NEW t \in timers, TimerFires(t) PROVE HistoryInv'
    <3>1. t.then \in Places
      BY <1>0 DEF HistoryTypeOK
    <3> QED BY <2>3, <3>1, ReloadStep DEF TimerFires
  <2> QED BY <1>2, <2>1, <2>2, <2>3, CountRowsStep, ListRowsStep, RowsArriveStep, ServePostStep, RetryQueuedStep
          DEF HistoryAnswers
<1>3. ASSUME NEW n \in DOMAIN srvJobs, JobEnds(n) PROVE HistoryInv'
  BY <1>3, JobEndsStep
<1>5. ASSUME NEW app \in Owners, DeleteApp(app) PROVE HistoryInv'
  BY <1>5, DeleteAppStep
<1>4. CASE UNCHANGED historyVars
  BY <1>4 DEF historyVars, HistoryInv, HistoryTypeOK, RowsInv, CountsInv, PageInv, CountOf, Matching,
              Place, OncePer
<1> QED BY <1>1, <1>2, <1>3, <1>4, <1>5 DEF HistoryNext

LEMMA HistoryFromInv == HistoryInv => NoDuplicateRows /\ PageExists
  BY DEF HistoryInv, RowsInv, PageInv, OncePer, NoDuplicateRows, PageExists, TotalPages

(* What BeliefEnds rests on: a row whose status is the page's own belief   *)
(* has a timer that has not fired and that will take it back, and one that *)
(* no answer has replaced is replaced by one that is still to come, unless *)
(* the last one was an error.                                              *)
BeliefsArePassing ==
  /\ \A j \in optimistic : \E t \in timers : t.job = j
  /\ \A j \in added : j \in optimistic \/ loads # {} \/ failed

LEMMA BeliefsInit == HistoryInit => BeliefsArePassing
  BY DEF HistoryInit, BeliefsArePassing

LEMMA BeliefsStep == BeliefsArePassing /\ [HistoryNext]_historyVars => BeliefsArePassing'
<1> SUFFICES ASSUME BeliefsArePassing, [HistoryNext]_historyVars PROVE BeliefsArePassing'
  OBVIOUS
<1>1. ASSUME NEW p \in posts, RetryQueued(p) PROVE BeliefsArePassing'
  <2>1. [job |-> p.answer, then |-> p.then].job = p.answer
    OBVIOUS
  <2>2. \A j \in added' : j \in added \/ j = p.answer
    BY <1>1 DEF RetryQueued
  <2> QED BY <1>1, <2>1, <2>2 DEF RetryQueued, BeliefsArePassing
<1>2. ASSUME NEW t \in timers, TimerFires(t) PROVE BeliefsArePassing'
  BY <1>2 DEF TimerFires, WithLoad, BeliefsArePassing
<1>3. ASSUME UNCHANGED <<optimistic, timers, added, failed>>, loads' = {} => loads = {}
      PROVE  BeliefsArePassing'
  BY <1>3 DEF BeliefsArePassing
<1>4. ASSUME HistoryOperator PROVE BeliefsArePassing'
  BY <1>3, <1>4 DEF HistoryOperator, ChooseFilter, ChoosePage, Choose, Retry, Cancel, Post, WithLoad
<1>5. ASSUME NEW l \in loads, CountRows(l) \/ ListRows(l) PROVE BeliefsArePassing'
  BY <1>3, <1>5 DEF CountRows, ListRows, Found
<1>6. ASSUME NEW l \in loads, RowsArrive(l) PROVE BeliefsArePassing'
  BY <1>6 DEF RowsArrive, BeliefsArePassing
<1>7. ASSUME NEW p \in posts, ServePost(p) \/ CancelAccepted(p) \/ Refused(p) PROVE BeliefsArePassing'
  BY <1>3, <1>7 DEF ServePost, CancelAccepted, Refused, WithLoad
<1>8. ASSUME NEW n \in DOMAIN srvJobs, JobEnds(n) PROVE BeliefsArePassing'
  BY <1>3, <1>8 DEF JobEnds
<1>9. ASSUME NEW app \in Owners, DeleteApp(app) PROVE BeliefsArePassing'
  BY <1>3, <1>9 DEF DeleteApp
<1>10. CASE UNCHANGED historyVars
  BY <1>3, <1>10 DEF historyVars
<1> QED BY <1>1, <1>2, <1>4, <1>5, <1>6, <1>7, <1>8, <1>9, <1>10 DEF HistoryNext, HistoryAnswers

-----------------------------------------------------------------------------
(* The list.                                                               *)

OrderRecords == [to : States \cup {"as it is"}, app : Listable, answer : {"none", "ok", "error"}]
LoadRecords == [served : BOOLEAN, list : [Listable -> States]]
Releases == [Listable -> {"none", "listed"}]

(* The releases that are there or on their way were asked for once.        *)
AskedForWhatIs ==
  \A a \in Listable : fetched[a] = IF a \in fetching \/ releases[a] = "listed" THEN 1 ELSE 0

(* With no accepted request left whose answer loads the list, the list is  *)
(* the server's, or a load is on its way that brings the server's, but for *)
(* what was changed without the page's knowledge since a list was read.    *)
Accepted == {o \in orders : o.answer = "ok"}
IsRegistry(list) == \A a \in Listable \ unheard : list[a] = registry[a]
LoadsBringRegistry ==
  ~overlapped /\ Accepted = {} => /\ appLoads = {} => IsRegistry(apps)
                                  /\ \A l \in appLoads : l.served => IsRegistry(l.list)

(* Two requests for the list are on their way only when one was made while *)
(* the other was.                                                          *)
OneLoad == ~overlapped => \A k, l \in appLoads : k = l

AppsInv == AppsTypeOK /\ AskedForWhatIs /\ LoadsBringRegistry /\ OneLoad

LEMMA AppsInitInv == AppsInit => AppsInv
<1> SUFFICES ASSUME AppsInit PROVE AppsInv
  OBVIOUS
<1>1. AppsTypeOK
  <2>1. NotYet \in LoadRecords
    BY DEF NotYet, LoadRecords, States
  <2>2. registry \in [Listable -> States] /\ apps \in [Listable -> States]
    BY DEF AppsInit, States
  <2>3. given \in 0 .. MaxOrders
    BY AppsAssumption DEF AppsInit
  <2> QED BY <2>1, <2>2, <2>3 DEF AppsInit, AppsTypeOK, LoadRecords
<1>2. AskedForWhatIs
  BY DEF AppsInit, AskedForWhatIs
<1>3. LoadsBringRegistry
  <2>1. appLoads = {NotYet} /\ NotYet.served = FALSE
    BY DEF AppsInit, NotYet
  <2> QED BY <2>1 DEF LoadsBringRegistry
<1>4. OneLoad
  BY DEF AppsInit, OneLoad
<1> QED BY <1>1, <1>2, <1>3, <1>4 DEF AppsInv

LEMMA AskedFromInv == AppsInv => ReleasesAskedOnce
  BY DEF AppsInv, AskedForWhatIs, ReleasesAskedOnce

LEMMA FreshFromInv == AppsInv => ListIsFresh
  BY DEF AppsInv, LoadsBringRegistry, IsRegistry, ListIsFresh, Accepted

(* The effect asks for what is neither there nor on its way.               *)
LEMMA FetchKeepsAsked ==
  ASSUME AppsTypeOK, NEW list, NEW have \in Releases, NEW busy \in SUBSET Listable,
         FetchEffect(list, have, busy),
         \A a \in Listable : fetched[a] = IF a \in busy \/ have[a] = "listed" THEN 1 ELSE 0
  PROVE  /\ releases' \in Releases /\ fetching' \subseteq Listable
         /\ fetched' \in [Listable -> Nat] /\ AskedForWhatIs'
<1> DEFINE missing == {a \in Listable : /\ list[a] = "enabled"
                                        /\ have[a] = "none" /\ a \notin busy}
<1>1. /\ releases' = have /\ fetching' = busy \cup missing
      /\ fetched' = [a \in Listable |-> IF a \in missing THEN fetched[a] + 1 ELSE fetched[a]]
  BY DEF FetchEffect
<1>2. fetched \in [Listable -> Nat]
  BY DEF AppsTypeOK
<1>3. \A a \in Listable : fetched'[a] = IF a \in fetching' \/ releases'[a] = "listed" THEN 1 ELSE 0
  <2> SUFFICES ASSUME NEW a \in Listable
               PROVE  fetched'[a] = IF a \in fetching' \/ releases'[a] = "listed" THEN 1 ELSE 0
    OBVIOUS
  <2>1. CASE a \in missing
    BY <1>1, <2>1
  <2>2. CASE a \notin missing
    BY <1>1, <2>2
  <2> QED BY <2>1, <2>2
<1>4. fetched' \in [Listable -> Nat]
  BY <1>1, <1>2
<1> QED BY <1>1, <1>3, <1>4 DEF AskedForWhatIs

LEMMA CountsOne ==
  ASSUME NEW f \in [Listable -> Nat], NEW a \in Listable
  PROVE  /\ [f EXCEPT ![a] = @ + 1] \in [Listable -> Nat]
         /\ f[a] > 0 => [f EXCEPT ![a] = @ - 1] \in [Listable -> Nat]
<1>1. f[a] + 1 \in Nat /\ (f[a] > 0 => f[a] - 1 \in Nat)
  OBVIOUS
<1> QED BY <1>1

LEMMA OrderIsBounded == Order /\ given \in 0 .. MaxOrders => given' \in 0 .. MaxOrders
  BY AppsAssumption DEF Order

LEMMA AppsStep == AppsInv /\ [AppsNext]_appsVars => AppsInv'
<1> SUFFICES ASSUME AppsInv, [AppsNext]_appsVars PROVE AppsInv'
  OBVIOUS
<1>0. AppsTypeOK /\ AskedForWhatIs /\ LoadsBringRegistry /\ OneLoad
  BY DEF AppsInv
<1>1. ASSUME NEW a \in Listable, NEW kind \in Kinds, Send(kind, a) PROVE AppsInv'
  <2>1. AppsTypeOK'
    <3>1. [to |-> Outcome(kind), app |-> a, answer |-> "none"] \in OrderRecords
      BY DEF Outcome, Kinds, States, OrderRecords
    <3>2. given' \in 0 .. MaxOrders
      BY <1>0, <1>1, OrderIsBounded DEF Send, AppsTypeOK
    <3> QED BY <1>0, <1>1, <3>1, <3>2 DEF Send, pageState, AppsTypeOK, OrderRecords
  <2>2. Accepted' = Accepted
    BY <1>1 DEF Send, Accepted
  <2> QED BY <1>0, <1>1, <2>1, <2>2 DEF Send, pageState, AppsInv, AskedForWhatIs, LoadsBringRegistry, IsRegistry, OneLoad
<1>2. ASSUME NEW a \in Listable, Control(a) PROVE AppsInv'
  <2>1. given' \in 0 .. MaxOrders
    BY <1>0, <1>2, OrderIsBounded DEF Control, AppsTypeOK
  <2>2. AppsTypeOK'
    <3>1. controls' \in [Listable -> Nat] /\ controlBusy' = a
      BY <1>0, <1>2, CountsOne DEF Control, AppsTypeOK
    <3> QED BY <1>0, <1>2, <2>1, <3>1 DEF Control, Others, AppsTypeOK
  <2> QED BY <1>0, <1>2, <2>2 DEF Control, Others, AppsInv, AskedForWhatIs, LoadsBringRegistry, IsRegistry, OneLoad, Accepted
<1>3. ASSUME NEW l \in appLoads, ServeApps(l) PROVE AppsInv'
  <2>1. UNCHANGED <<registry, apps, orders, releases, fetching, fetched, overlapped>>
    BY <1>3 DEF ServeApps, pageState
  <2>2. /\ ~overlapped => appLoads' = {[served |-> TRUE, list |-> registry]}
        /\ [served |-> TRUE, list |-> registry].list = registry
    BY <1>0, <1>3 DEF ServeApps, OneLoad
  <2>3. appLoads' # {}
    BY <1>3 DEF ServeApps
  <2>4. AppsTypeOK'
    <3>1. [served |-> TRUE, list |-> registry] \in LoadRecords
      BY <1>0 DEF AppsTypeOK, LoadRecords
    <3> QED BY <1>0, <1>3, <3>1 DEF ServeApps, pageState, AppsTypeOK, LoadRecords
  <2> QED BY <1>0, <2>1, <2>2, <2>3, <2>4 DEF AppsInv, AskedForWhatIs, LoadsBringRegistry, IsRegistry, OneLoad, Accepted
<1>4. ASSUME NEW l \in appLoads, AppsArrive(l) PROVE AppsInv'
  <2>1. /\ releases' \in Releases /\ fetching' \subseteq Listable
        /\ fetched' \in [Listable -> Nat] /\ AskedForWhatIs'
    <3>1. FetchEffect(l.list, releases, fetching)
      BY <1>4 DEF AppsArrive
    <3>2. releases \in Releases /\ fetching \in SUBSET Listable
      BY <1>0 DEF AppsTypeOK, Releases
    <3> QED BY <1>0, <3>1, <3>2, FetchKeepsAsked DEF AskedForWhatIs
  <2>2. /\ UNCHANGED <<registry, orders, overlapped, unheard>>
        /\ appLoads' = appLoads \ {l} /\ apps' = l.list /\ l.served
    BY <1>4 DEF AppsArrive
  <2>3. AppsTypeOK'
    <3>1. l.list \in [Listable -> States]
      BY <1>0 DEF AppsTypeOK
    <3>2. statusMap' \in [Listable -> {"none", "...", "shown"}] /\ probes' \in [Listable -> Nat]
      <4>1. ProbeEffect(l.list)
        BY <1>4 DEF AppsArrive
      <4>2. \A a \in Listable : probes[a] \in Nat /\ probes[a] + 1 \in Nat
                                /\ statusMap[a] \in {"none", "...", "shown"}
        <5>1. probes \in [Listable -> Nat] /\ statusMap \in [Listable -> {"none", "...", "shown"}]
          BY <1>0 DEF AppsTypeOK
        <5> QED BY <5>1
      <4> QED BY <4>1, <4>2 DEF ProbeEffect
    <3>3. UNCHANGED <<controls, controlBusy, given>>
      BY <1>4 DEF AppsArrive
    <3> QED BY <1>0, <2>1, <2>2, <3>1, <3>2, <3>3 DEF AppsTypeOK, Releases
  <2> QED BY <1>0, <2>1, <2>2, <2>3 DEF AppsInv, LoadsBringRegistry, IsRegistry, OneLoad, Accepted
<1>5. ASSUME NEW l \in appLoads, AppsFail(l) PROVE AppsInv'
  BY <1>0, <1>5 DEF AppsFail, pageState, AppsInv, AppsTypeOK, AskedForWhatIs, LoadsBringRegistry, IsRegistry, OneLoad
<1>6. ASSUME NEW o \in orders, ServeOrder(o) PROVE AppsInv'
  <2>1. /\ [o EXCEPT !.answer = "ok"] \in OrderRecords /\ [o EXCEPT !.answer = "ok"].answer = "ok"
        /\ [o EXCEPT !.answer = "error"] \in OrderRecords
    BY <1>0 DEF AppsTypeOK, OrderRecords
  <2>2. AppsTypeOK'
    <3>1. registry' \in [Listable -> States] /\ unheard' \subseteq Listable
      BY <1>0, <1>6 DEF ServeOrder, AppsTypeOK, States, OrderRecords
    <3>2. orders' \subseteq OrderRecords
      <4>1. Replied(o, "ok") \/ Replied(o, "error")
        BY <1>6 DEF ServeOrder
      <4>2. orders \subseteq OrderRecords
        BY <1>0 DEF AppsTypeOK, OrderRecords
      <4> QED BY <2>1, <4>1, <4>2 DEF Replied
    <3> QED BY <1>0, <1>6, <3>1, <3>2 DEF ServeOrder, pageState, AppsTypeOK, OrderRecords
  <2>3. Accepted' = {} => /\ Accepted = {}
                          /\ \A a \in Listable \ unheard' : a \notin unheard /\ registry'[a] = registry[a]
    <3>1. CASE Replied(o, "ok")
      BY <1>0, <2>1, <3>1 DEF Replied, Accepted
    <3>2. CASE /\ Replied(o, "error")
               /\ \/ unheard' = unheard \cup {a \in Listable : registry'[a] # registry[a]}
                  \/ UNCHANGED <<registry, unheard>>
      <4>1. Accepted' = {} => Accepted = {}
        BY <1>6, <3>2 DEF ServeOrder, Replied, Accepted
      <4> QED BY <3>2, <4>1
    <3> QED BY <1>6, <3>1, <3>2 DEF ServeOrder
  <2>4. LoadsBringRegistry'
    BY <1>0, <1>6, <2>3 DEF ServeOrder, LoadsBringRegistry, IsRegistry
  <2> QED BY <1>0, <1>6, <2>2, <2>4 DEF ServeOrder, pageState, AppsInv, AskedForWhatIs, OneLoad
<1>7. ASSUME NEW o \in orders, OrderAnswered(o) PROVE AppsInv'
  <2>1. UNCHANGED <<registry, apps, releases, fetching, fetched, unheard>> /\ orders' = orders \ {o}
    BY <1>7 DEF OrderAnswered, pageState
  <2>2. LoadsBringRegistry'
    <3>1. CASE o.answer = "ok"
      <4>1. ~overlapped' => appLoads' = {NotYet}
        BY <1>7, <3>1 DEF OrderAnswered, LoadApps
      <4>2. ~NotYet.served
        BY DEF NotYet
      <4> QED BY <4>1, <4>2 DEF LoadsBringRegistry
    <3>2. CASE o.answer # "ok"
      BY <1>0, <1>7, <3>2 DEF OrderAnswered, LoadsBringRegistry, IsRegistry, Accepted
    <3> QED BY <3>1, <3>2
  <2>3. AppsTypeOK'
    <3>1. NotYet \in LoadRecords
      BY DEF NotYet, LoadRecords, States
    <3>2. appLoads' \subseteq LoadRecords /\ overlapped' \in BOOLEAN
      <4>1. appLoads \subseteq LoadRecords /\ overlapped \in BOOLEAN
        BY <1>0 DEF AppsTypeOK, LoadRecords
      <4>2. (overlapped \/ appLoads # {}) \in BOOLEAN
        OBVIOUS
      <4>3. LoadApps \/ UNCHANGED <<appLoads, overlapped>>
        BY <1>7 DEF OrderAnswered
      <4> QED BY <3>1, <4>1, <4>2, <4>3 DEF LoadApps
    <3>3. UNCHANGED <<pageState, given>>
      BY <1>7 DEF OrderAnswered
    <3> QED BY <1>0, <2>1, <3>2, <3>3 DEF pageState, AppsTypeOK, LoadRecords
  <2>4. OneLoad'
    <3>1. CASE LoadApps
      BY <3>1 DEF LoadApps, OneLoad
    <3>2. CASE UNCHANGED <<appLoads, overlapped>>
      BY <1>0, <3>2 DEF OneLoad
    <3> QED BY <1>7, <3>1, <3>2 DEF OrderAnswered
  <2> QED BY <1>0, <2>1, <2>2, <2>3, <2>4 DEF AppsInv, AskedForWhatIs
<1>8. ASSUME NEW a \in Listable, StatusArrives(a) PROVE AppsInv'
  <2>1. AppsTypeOK'
    <3>1. probes' \in [Listable -> Nat]
      BY <1>0, <1>8, CountsOne DEF StatusArrives, AppsTypeOK
    <3>2. statusMap' \in [Listable -> {"none", "...", "shown"}]
      BY <1>0, <1>8 DEF StatusArrives, AppsTypeOK
    <3> QED BY <1>0, <1>8, <3>1, <3>2 DEF StatusArrives, Others, AppsTypeOK
  <2> QED BY <1>0, <1>8, <2>1 DEF StatusArrives, Others, AppsInv, AskedForWhatIs, LoadsBringRegistry, IsRegistry, OneLoad, Accepted
<1>9. ASSUME NEW a \in Listable, ControlAnswered(a) PROVE AppsInv'
  <2>1. AppsTypeOK'
    <3>1. probes' \in [Listable -> Nat] /\ controls' \in [Listable -> Nat]
      <4>1. probes \in [Listable -> Nat] /\ controls \in [Listable -> Nat]
        BY <1>0 DEF AppsTypeOK
      <4>2. /\ controls[a] > 0 /\ controls' = [controls EXCEPT ![a] = @ - 1]
            /\ probes' = probes \/ probes' = [probes EXCEPT ![a] = @ + 1]
        BY <1>9 DEF ControlAnswered
      <4> QED BY <4>1, <4>2, CountsOne
    <3>2. statusMap' \in [Listable -> {"none", "...", "shown"}]
      BY <1>0, <1>9 DEF ControlAnswered, AppsTypeOK
    <3> QED BY <1>0, <1>9, <3>1, <3>2 DEF ControlAnswered, Others, AppsTypeOK
  <2> QED BY <1>0, <1>9, <2>1 DEF ControlAnswered, Others, AppsInv, AskedForWhatIs, LoadsBringRegistry, IsRegistry, OneLoad, Accepted
<1>10. ASSUME NEW a \in Listable, ReleasesArrive(a) PROVE AppsInv'
  <2> DEFINE have == [releases EXCEPT ![a] = "listed"]
             busy == fetching \ {a}
  <2>1. have \in Releases /\ busy \in SUBSET Listable
    BY <1>0 DEF AppsTypeOK, Releases
  <2>2. \A b \in Listable : fetched[b] = IF b \in busy \/ have[b] = "listed" THEN 1 ELSE 0
    BY <1>0, <1>10 DEF ReleasesArrive, AskedForWhatIs, AppsTypeOK, Releases
  <2>3. FetchEffect(apps, have, busy) /\ UNCHANGED Rest
    BY <1>10 DEF ReleasesArrive
  <2>4. /\ releases' \in Releases /\ fetching' \subseteq Listable
        /\ fetched' \in [Listable -> Nat] /\ AskedForWhatIs'
    BY <1>0, <2>1, <2>2, <2>3, FetchKeepsAsked
  <2>5. AppsTypeOK'
    BY <1>0, <2>3, <2>4 DEF Rest, AppsTypeOK, Releases
  <2> QED BY <1>0, <2>3, <2>4, <2>5 DEF Rest, AppsInv, LoadsBringRegistry, IsRegistry, OneLoad, Accepted
<1>11. CASE UNCHANGED appsVars
  <2>1. AppsTypeOK' /\ AskedForWhatIs'
    BY <1>0, <1>11 DEF appsVars, pageState, AppsTypeOK, AskedForWhatIs
  <2>2. LoadsBringRegistry' /\ OneLoad'
    BY <1>0, <1>11 DEF appsVars, LoadsBringRegistry, IsRegistry, OneLoad, Accepted
  <2> QED BY <2>1, <2>2 DEF AppsInv
<1> QED BY <1>1, <1>2, <1>3, <1>4, <1>5, <1>6, <1>7, <1>8, <1>9, <1>10, <1>11
        DEF AppsNext, AppsOperator, AppsAnswers

(* What StatusSettles rests on: where the placeholder of a status is shown *)
(* a request for it is on its way, whatever was loaded and controlled.     *)
PlaceholdersAreAsked == \A a \in Listable : statusMap[a] = "..." => probes[a] > 0

LEMMA PlaceholdersInit == AppsInit => PlaceholdersAreAsked
  BY DEF AppsInit, PlaceholdersAreAsked

LEMMA PlaceholdersStep ==
  AppsTypeOK /\ PlaceholdersAreAsked /\ [AppsNext]_appsVars => PlaceholdersAreAsked'
<1> SUFFICES ASSUME AppsTypeOK, PlaceholdersAreAsked, [AppsNext]_appsVars PROVE PlaceholdersAreAsked'
  OBVIOUS
<1>0. /\ statusMap \in [Listable -> {"none", "...", "shown"}] /\ probes \in [Listable -> Nat]
      /\ controls \in [Listable -> Nat]
  BY DEF AppsTypeOK
<1>1. ASSUME NEW l \in appLoads, AppsArrive(l) PROVE PlaceholdersAreAsked'
  <2>1. ProbeEffect(l.list)
    BY <1>1 DEF AppsArrive
  <2> QED BY <1>0, <2>1 DEF ProbeEffect, PlaceholdersAreAsked
<1>2. ASSUME NEW a \in Listable, StatusArrives(a) \/ ControlAnswered(a) PROVE PlaceholdersAreAsked'
  BY <1>0, <1>2 DEF StatusArrives, ControlAnswered, PlaceholdersAreAsked
<1>3. CASE UNCHANGED <<statusMap, probes>>
  BY <1>3 DEF PlaceholdersAreAsked
<1>4. AppsOperator => UNCHANGED <<statusMap, probes>>
  BY DEF AppsOperator, Control, Send, pageState
<1>5. ASSUME NEW l \in appLoads, ServeApps(l) \/ AppsFail(l) PROVE UNCHANGED <<statusMap, probes>>
  BY <1>5 DEF ServeApps, AppsFail, pageState
<1>6. ASSUME NEW o \in orders, ServeOrder(o) \/ OrderAnswered(o) PROVE UNCHANGED <<statusMap, probes>>
  BY <1>6 DEF ServeOrder, OrderAnswered, pageState
<1>7. ASSUME NEW a \in Listable, ReleasesArrive(a) PROVE UNCHANGED <<statusMap, probes>>
  BY <1>7 DEF ReleasesArrive, Rest
<1> QED BY <1>1, <1>2, <1>3, <1>4, <1>5, <1>6, <1>7 DEF AppsNext, AppsAnswers, appsVars, pageState

=============================================================================
