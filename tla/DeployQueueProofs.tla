-------------------------- MODULE DeployQueueProofs --------------------------
(***************************************************************************)
(* Proofs about DeployQueue for any applications, tags, callers, limit and *)
(* number of jobs.                                                         *)
(***************************************************************************)
EXTENDS DeployQueue, FiniteSetTheorems, TLAPS

LEMMA JobsType ==
  ASSUME TypeOK, NEW j \in Rows
  PROVE  /\ j \in JobIds /\ jobs[j] \in Row
         /\ jobs[j].app \in Apps /\ jobs[j].tag \in Tags
         /\ jobs[j].seq \in Nat /\ jobs[j].status \in Active \cup Terminal
  BY DEF TypeOK, Rows, Row

LEMMA ActiveKeysType == TypeOK => ActiveKeys \in SUBSET Keys
  BY JobsType DEF ActiveKeys, Keys, ActiveRows, Key

LEMMA UpdateType ==
  ASSUME TypeOK, NEW S, S \subseteq Rows, NEW s \in Active \cup Terminal
  PROVE  Update(S, s) \in [JobIds -> Row \cup {NoJob}]
  BY DEF TypeOK, Update, Row, Rows

(* An action that moves one caller through its admission and touches       *)
(* neither table keeps the types, whatever the mutex does.                 *)
LEMMA MoveType ==
  ASSUME TypeOK, NEW c \in Callers, UNCHANGED <<apps, jobs, issued>>,
         NEW l \in Places, Goto(c, l), UNCHANGED op \/ op' = [op EXCEPT ![c] = NoJob],
         l \in Admitting => UNCHANGED op /\ op[c] # NoJob,
         cache' = NoCache \/ cache' \in SUBSET Keys,
         snapshot' = NoCache \/ snapshot' \in SUBSET Keys,
         cacheMu' \in {cacheMu, Free} \ {c},
         snapshot' # NoCache => cacheMu' # Free
  PROVE  TypeOK'
  BY SentinelAssumption DEF TypeOK, Goto, LookingUp

LEMMA SubmitType ==
  ASSUME TypeOK, NEW c \in Callers, NEW o \in Ops, NEW l \in Admitting, Submit(c, o, l)
  PROVE  TypeOK'
  BY SentinelAssumption DEF TypeOK, Submit, Goto, LookingUp, Places, Admitting

(* So does every writer that leaves well-typed tables behind.              *)
LEMMA WroteType ==
  ASSUME TypeOK, NEW c \in Callers, Wrote(c), pc[c] \in {"idle", "insert"},
         apps' \in [Apps -> AppStates], jobs' \in [JobIds -> Row \cup {NoJob}],
         issued' \in Seq(JobIds)
  PROVE  TypeOK'
  BY SentinelAssumption DEF TypeOK, Wrote, Goto, LookingUp, Places, Admitting

(* InsertRow adds the row of the caller's admission.                       *)
LEMMA InsertRowType ==
  ASSUME TypeOK, NEW c \in Callers, NEW j \in JobIds, NEW k \in Nat, InsertRow(c, j, k)
  PROVE  /\ jobs'[j] \in Row /\ jobs'[j].status = "pending" /\ jobs'[j].seq = k
         /\ jobs'[j].app = op[c].app /\ jobs'[j].tag = op[c].tag
         /\ \A i \in JobIds \ {j} : jobs'[i] = jobs[i]
         /\ jobs' \in [JobIds -> Row \cup {NoJob}]
         /\ issued' \in Seq(JobIds)
<1>1. op[c] \in Ops
  BY DEF TypeOK, InsertRow, Admitting, Places
<1> QED BY <1>1 DEF TypeOK, InsertRow, Row, Ops, Active

(* What the writers that insert nothing do to the rows.                    *)
LEMMA CancelAllType ==
  ASSUME TypeOK, NEW S, S \subseteq Rows, CancelAll(S)
  PROVE  jobs' \in [JobIds -> Row \cup {NoJob}]
<1>1. ASSUME NEW j \in S, NEW s \in {"canceled", "cancel_requested"}
      PROVE  [jobs[j] EXCEPT !.status = s] \in Row
  BY DEF TypeOK, Row, Rows, Active, Running, Terminal
<1> QED BY <1>1 DEF TypeOK, CancelAll

TypedWrite(c) ==
  /\ Write(c)
  /\ apps' \in [Apps -> AppStates]
  /\ jobs' \in [JobIds -> Row \cup {NoJob}]

LEMMA WriteType ==
  ASSUME TypeOK, NEW c \in Callers, Control(c) \/ Deploy(c)
  PROVE  TypedWrite(c)
<1>1. ASSUME NEW j \in JobIds, RequestJobCancel(c, j) PROVE TypedWrite(c)
  BY <1>1, CancelAllType DEF TypedWrite, RequestJobCancel, Rows, TypeOK
<1>2. ASSUME NEW a \in Apps, RequestAppCancel(c, a) PROVE TypedWrite(c)
  BY <1>2, CancelAllType DEF TypedWrite, RequestAppCancel, RowsOf, TypeOK
<1>3. ASSUME NEW a \in Apps, DeleteApp(c, a) PROVE TypedWrite(c)
  BY <1>3 DEF TypedWrite, DeleteApp, RowsOf, TypeOK, AppStates
<1>4. ASSUME NEW a \in Apps, NEW j \in JobIds, DequeueNext(c, a, j) PROVE TypedWrite(c)
  BY <1>4, UpdateType DEF TypedWrite, DequeueNext, Oldest, PendingOf, RowsOf, TypeOK, Active, Running
<1>5. ASSUME NEW j \in JobIds, NEW ok \in BOOLEAN, MarkDone(c, j, ok) PROVE TypedWrite(c)
  BY <1>5, UpdateType DEF TypedWrite, MarkDone, TypeOK, Terminal
<1>6. ASSUME NEW j \in JobIds, NEW s \in Terminal, MarkTerminal(c, j, s) PROVE TypedWrite(c)
  BY <1>6, UpdateType DEF TypedWrite, MarkTerminal, TypeOK
<1>7. CASE SaveJobLog(c) \/ WriteFail(c)
  BY <1>7 DEF TypedWrite, SaveJobLog, WriteFail, TypeOK
<1> QED BY <1>1, <1>2, <1>3, <1>4, <1>5, <1>6, <1>7 DEF Control, Deploy

(* Type correctness: also, the holder of activeCacheMu is looking a        *)
(* duplicate up, so no early return and no restart leaves it locked.       *)
THEOREM TypeCorrect == Spec => []TypeOK
<1>1. Init => TypeOK
  BY SentinelAssumption DEF Init, TypeOK, AppStates, Places, Admitting
<1>2. TypeOK /\ [Next]_vars => TypeOK'
  <2> SUFFICES ASSUME TypeOK, [Next]_vars PROVE TypeOK'
    OBVIOUS
  <2>1. ASSUME NEW c \in Callers, Request(c) PROVE TypeOK'
    <3>1. ASSUME NEW a \in Apps, NEW t \in Tags, Admit(c, a, t) \/ ManualDeploy(c, a, t)
          PROVE TypeOK'
      BY <3>1, SubmitType DEF Admit, ManualDeploy, Ops, Places, Admitting
    <3>2. ASSUME NEW j \in JobIds, RetryHistoryJob(c, j) PROVE TypeOK'
      BY <3>2, JobsType, SubmitType DEF RetryHistoryJob, Ops, Places, Admitting
    <3>3. CASE CheckOriginal(c)
      BY <3>3, MoveType DEF CheckOriginal, Return, Goto, TypeOK, Places, Admitting, LookingUp
    <3>4. CASE LookupHit(c)
      BY <3>4, MoveType DEF LookupHit, Decide, Return, Goto, TypeOK, Places, Admitting, LookingUp
    <3>5. CASE LookupLock(c)
      BY <3>5, SentinelAssumption DEF LookupLock, TypeOK, LookingUp
    <3>6. CASE LookupQuery(c)
      BY <3>6, ActiveKeysType, SentinelAssumption DEF LookupQuery, TypeOK, LookingUp
    <3>7. CASE LookupPublish(c)
      BY <3>7, MoveType, SentinelAssumption DEF LookupPublish, Decide, Return, Goto, TypeOK, Places, Admitting, LookingUp
    <3>8. CASE LookupFail(c)
      BY <3>8, MoveType, SentinelAssumption DEF LookupFail, Return, Goto, TypeOK, Places, Admitting, LookingUp
    <3>9. CASE CountPending(c)
      BY <3>9, MoveType DEF CountPending, Return, Goto, TypeOK, Places, Admitting, LookingUp
    <3>10. CASE Insert(c)
      <4>1. ASSUME NEW j \in JobIds, NEW k \in 1..(Len(issued) + 1), InsertRow(c, j, k)
            PROVE TypeOK'
        <5>1. k \in Nat
          BY DEF TypeOK
        <5> QED BY <4>1, <5>1, InsertRowType, WroteType DEF InsertRow, TypeOK
      <4>2. CASE InsertFail(c)
        BY <4>2, WroteType DEF InsertFail, TypeOK
      <4> QED BY <3>10, <4>1, <4>2 DEF Insert
    <3> QED BY <2>1, <3>1, <3>2, <3>3, <3>4, <3>5, <3>6, <3>7, <3>8, <3>9, <3>10 DEF Request
  <2>2. ASSUME NEW c \in Callers, Control(c) PROVE TypeOK'
    BY <2>2, WriteType, WroteType DEF TypedWrite, Write, TypeOK
  <2>3. ASSUME NEW c \in Callers, Deploy(c) PROVE TypeOK'
    BY <2>3, WriteType, WroteType DEF TypedWrite, Write, TypeOK
  <2>4. ASSUME NEW c \in Callers, Invalidate(c) PROVE TypeOK'
    BY <2>4, SentinelAssumption DEF Invalidate, Return, Goto, TypeOK, Places, Admitting, LookingUp
  <2>5. ASSUME NEW a \in Apps, SetEnabled(a) PROVE TypeOK'
    BY <2>5 DEF SetEnabled, TypeOK, AppStates, LookingUp
  <2>6. CASE Restart
    <3>1. jobs' \in [JobIds -> Row \cup {NoJob}]
      BY <2>6, UpdateType DEF Restart, RecoverStale, TypeOK, Terminal
    <3> QED BY <2>6, <3>1, SentinelAssumption DEF Restart, TypeOK, Places, Admitting, LookingUp
  <2>7. CASE UNCHANGED vars
    BY <2>7 DEF vars, TypeOK, LookingUp
  <2> QED BY <2>1, <2>2, <2>3, <2>4, <2>5, <2>6, <2>7 DEF Next
<1> QED BY <1>1, <1>2, PTL DEF Spec

-----------------------------------------------------------------------------

(* Every writer leaves itself about to drop the snapshot, and every other  *)
(* step of a caller keeps whoever is.                                      *)
LEMMA WroteWillInvalidate ==
  ASSUME TypeOK, NEW c \in Callers, Wrote(c)
  PROVE  \E d \in Callers : pc'[d] = "invalidate"
  BY DEF TypeOK, Wrote, Goto

LEMMA MoveKeepsInvalidate ==
  ASSUME TypeOK, NEW c \in Callers, NEW l, Goto(c, l), pc[c] # "invalidate",
         \E d \in Callers : pc[d] = "invalidate"
  PROVE  \E d \in Callers : pc'[d] = "invalidate"
  BY DEF TypeOK, Goto

LEMMA ActiveKeysUnchanged == UNCHANGED jobs => UNCHANGED ActiveKeys
  BY DEF ActiveKeys, ActiveRows, Rows, Key

(* The snapshot behind IsDuplicate is coherent: it is rebuilt from the     *)
(* table under activeCacheMu, and a writer that commits after the query    *)
(* cannot invalidate before the rebuild has published.                     *)
THEOREM CacheIsCoherent == Spec => []CacheCoherent
<1>1. Init => CacheCoherent
  BY DEF Init, CacheCoherent, Stale
<1>2. TypeOK /\ CacheCoherent /\ [Next]_vars => CacheCoherent'
  <2> SUFFICES ASSUME TypeOK, CacheCoherent, [Next]_vars PROVE CacheCoherent'
    OBVIOUS
  <2>1. ASSUME NEW c \in Callers, Request(c) PROVE CacheCoherent'
    <3>1. ASSUME NEW o, NEW l, Submit(c, o, l) PROVE CacheCoherent'
      BY <3>1, MoveKeepsInvalidate, ActiveKeysUnchanged DEF Submit, CacheCoherent, Stale
    <3>2. ASSUME NEW a \in Apps, NEW t \in Tags, Admit(c, a, t) \/ ManualDeploy(c, a, t)
          PROVE CacheCoherent'
      BY <3>1, <3>2 DEF Admit, ManualDeploy
    <3>3. ASSUME NEW j \in JobIds, RetryHistoryJob(c, j) PROVE CacheCoherent'
      BY <3>1, <3>3 DEF RetryHistoryJob
    <3>4. ASSUME UNCHANGED <<jobs, cache, snapshot>>, NEW l, Goto(c, l), pc[c] # "invalidate"
          PROVE  CacheCoherent'
      BY <3>4, MoveKeepsInvalidate, ActiveKeysUnchanged DEF CacheCoherent, Stale
    <3>5. CASE CheckOriginal(c)
      BY <3>4, <3>5 DEF CheckOriginal, Return
    <3>6. CASE LookupHit(c)
      BY <3>4, <3>6 DEF LookupHit, LookingUp, Decide, Return
    <3>7. CASE LookupLock(c)
      BY <3>7, ActiveKeysUnchanged DEF LookupLock, CacheCoherent, Stale
    <3>8. CASE LookupQuery(c)
      BY <3>8, ActiveKeysUnchanged DEF LookupQuery, CacheCoherent, Stale
    <3>9. CASE LookupPublish(c)
      <4>1. \E l : Goto(c, l)
        BY <3>9 DEF LookupPublish, Decide, Return
      <4>2. pc[c] # "invalidate"
        BY <3>9 DEF LookupPublish, TypeOK, LookingUp
      <4> QED BY <3>9, <4>1, <4>2, MoveKeepsInvalidate, ActiveKeysUnchanged
              DEF LookupPublish, CacheCoherent, Stale
    <3>10. CASE LookupFail(c)
      <4>1. pc[c] # "invalidate"
        BY <3>10 DEF LookupFail, TypeOK, LookingUp
      <4> QED BY <3>4, <3>10, <4>1 DEF LookupFail, Return
    <3>11. CASE CountPending(c)
      BY <3>4, <3>11 DEF CountPending, Return
    <3>12. CASE Insert(c)
      BY <3>12, WroteWillInvalidate DEF Insert, InsertRow, InsertFail, CacheCoherent
    <3> QED BY <2>1, <3>2, <3>3, <3>5, <3>6, <3>7, <3>8, <3>9, <3>10, <3>11, <3>12 DEF Request
  <2>2. ASSUME NEW c \in Callers, Control(c) \/ Deploy(c) PROVE CacheCoherent'
    BY <2>2, WriteType, WroteWillInvalidate DEF TypedWrite, Write, CacheCoherent
  <2>3. ASSUME NEW c \in Callers, Invalidate(c) PROVE CacheCoherent'
    BY <2>3 DEF Invalidate, TypeOK, CacheCoherent, Stale
  <2>4. ASSUME NEW a \in Apps, SetEnabled(a) PROVE CacheCoherent'
    BY <2>4, ActiveKeysUnchanged DEF SetEnabled, CacheCoherent, Stale
  <2>5. CASE Restart
    BY <2>5 DEF Restart, CacheCoherent, Stale
  <2>6. CASE UNCHANGED vars
    BY <2>6, ActiveKeysUnchanged DEF vars, CacheCoherent, Stale
  <2> QED BY <2>1, <2>2, <2>3, <2>4, <2>5, <2>6 DEF Next
<1> QED BY <1>1, <1>2, TypeCorrect, PTL DEF Spec

-----------------------------------------------------------------------------

(* What a step that inserts nothing does to the rows: it removes some, and *)
(* it changes the status of others, never to make an ended job active or   *)
(* a started one pending.                                                  *)
KeepsRow(j) ==
  jobs'[j] # NoJob =>
    /\ j \in Rows
    /\ jobs'[j].app = jobs[j].app /\ jobs'[j].tag = jobs[j].tag /\ jobs'[j].seq = jobs[j].seq
    /\ jobs'[j].retry = jobs[j].retry
    /\ jobs'[j].status \in Active => jobs[j].status \in Active
    /\ jobs'[j].status = "pending" => jobs[j].status = "pending"

LEMMA UpdateKeeps ==
  ASSUME TypeOK, NEW S, S \subseteq Rows, NEW s, s # "pending",
         jobs' = Update(S, s), s \in Active => \A j \in S : jobs[j].status \in Active,
         NEW i \in JobIds
  PROVE  KeepsRow(i)
<1>1. CASE i \in S
  <2>1. jobs'[i] = [jobs[i] EXCEPT !.status = s] /\ i \in Rows /\ jobs[i] \in Row
    BY <1>1 DEF Update, TypeOK, Rows
  <2> QED BY <1>1, <2>1 DEF KeepsRow, Row
<1>2. CASE i \notin S
  BY <1>2 DEF Update, KeepsRow, Rows
<1> QED BY <1>1, <1>2

LEMMA CancelAllKeeps ==
  ASSUME TypeOK, NEW S, S \subseteq Rows, CancelAll(S), NEW i \in JobIds
  PROVE  KeepsRow(i)
<1>1. CASE i \in S /\ jobs[i].status \in {"pending", "in_progress"}
  <2>1. PICK s \in {"canceled", "cancel_requested"} : jobs'[i] = [jobs[i] EXCEPT !.status = s]
    BY <1>1 DEF CancelAll
  <2>2. i \in Rows /\ jobs[i] \in Row
    BY <1>1 DEF TypeOK, Rows
  <2> QED BY <1>1, <2>1, <2>2 DEF KeepsRow, Row, Active, Running
<1>2. CASE ~(i \in S /\ jobs[i].status \in {"pending", "in_progress"})
  BY <1>2 DEF CancelAll, KeepsRow, Rows
<1> QED BY <1>1, <1>2

LEMMA UnchangedKeeps ==
  ASSUME TypeOK, UNCHANGED jobs, NEW i \in JobIds PROVE KeepsRow(i)
  BY DEF KeepsRow, Rows

KeepsRows == \A i \in JobIds : KeepsRow(i)
InsertsRow == \E c \in Callers, j \in JobIds, k \in Nat : InsertRow(c, j, k)

LEMMA StepShape ==
  ASSUME TypeOK, [Next]_vars
  PROVE  (KeepsRows /\ UNCHANGED issued) \/ InsertsRow
<1>1. ASSUME NEW c \in Callers, Request(c) PROVE (KeepsRows /\ UNCHANGED issued) \/ InsertsRow
  <2>1. ASSUME NEW j \in JobIds, NEW k \in 1..(Len(issued) + 1), InsertRow(c, j, k)
        PROVE InsertsRow
    BY <2>1 DEF InsertsRow, TypeOK
  <2>2. CASE UNCHANGED <<jobs, issued>>
    BY <2>2, UnchangedKeeps DEF KeepsRows
  <2> QED
    BY <1>1, <2>1, <2>2
       DEF Request, Admit, ManualDeploy, RetryHistoryJob, Submit, CheckOriginal, LookupHit,
           LookupLock, LookupQuery, LookupPublish, LookupFail, CountPending, Insert, InsertFail
<1>2. ASSUME NEW c \in Callers, Control(c) PROVE KeepsRows
  <2>1. ASSUME NEW j \in JobIds, RequestJobCancel(c, j) PROVE KeepsRows
    BY <2>1, CancelAllKeeps DEF RequestJobCancel, KeepsRows
  <2>2. ASSUME NEW a \in Apps, RequestAppCancel(c, a) PROVE KeepsRows
    BY <2>2, CancelAllKeeps DEF RequestAppCancel, RowsOf, KeepsRows
  <2>3. ASSUME NEW a \in Apps, DeleteApp(c, a) PROVE KeepsRows
    BY <2>3 DEF DeleteApp, KeepsRows, KeepsRow, Rows
  <2> QED BY <1>2, <2>1, <2>2, <2>3 DEF Control
<1>3. ASSUME NEW c \in Callers, Deploy(c) PROVE KeepsRows
  <2>1. ASSUME NEW a \in Apps, NEW j \in JobIds, DequeueNext(c, a, j) PROVE KeepsRows
    BY <2>1, UpdateKeeps DEF DequeueNext, Oldest, PendingOf, RowsOf, Active, KeepsRows
  <2>2. ASSUME NEW j \in JobIds, NEW ok \in BOOLEAN, MarkDone(c, j, ok) PROVE KeepsRows
    BY <2>2, UpdateKeeps DEF MarkDone, Active, Running, KeepsRows
  <2>3. ASSUME NEW j \in JobIds, NEW s \in Terminal, MarkTerminal(c, j, s) PROVE KeepsRows
    BY <2>3, UpdateKeeps DEF MarkTerminal, Active, Running, Terminal, KeepsRows
  <2>4. CASE SaveJobLog(c) \/ WriteFail(c)
    BY <2>4, UnchangedKeeps DEF SaveJobLog, WriteFail, KeepsRows
  <2> QED BY <1>3, <2>1, <2>2, <2>3, <2>4 DEF Deploy
<1>4. CASE Restart
  BY <1>4, UpdateKeeps, UnchangedKeeps DEF Restart, RecoverStale, Active, Running, KeepsRows
<1>5. ASSUME UNCHANGED jobs PROVE KeepsRows
  BY <1>5, UnchangedKeeps DEF KeepsRows
<1> QED
  BY <1>1, <1>2, <1>3, <1>4, <1>5, WriteType
     DEF Next, Invalidate, SetEnabled, TypedWrite, Write, Restart, vars

(* One active job per application and tag: only an INSERT makes a key      *)
(* active, and the partial UNIQUE index refuses one that already is.       *)
THEOREM ActiveIsUnique == Spec => []UniqueActive
<1>1. Init => UniqueActive
  BY DEF Init, UniqueActive, ActiveRows, Rows
<1>2. TypeOK /\ UniqueActive /\ [Next]_vars => UniqueActive'
  <2> SUFFICES ASSUME TypeOK, UniqueActive, [Next]_vars PROVE UniqueActive'
    OBVIOUS
  <2>1. CASE KeepsRows
    <3>1. ActiveRows' \subseteq ActiveRows /\ \A j \in ActiveRows' : Key(j)' = Key(j)
      BY <2>1 DEF KeepsRows, KeepsRow, ActiveRows, Rows, Key
    <3> QED BY <3>1 DEF UniqueActive
  <2>2. ASSUME NEW c \in Callers, NEW j \in JobIds, NEW k \in Nat, InsertRow(c, j, k)
        PROVE UniqueActive'
    <3>1. ActiveRows' \subseteq ActiveRows \cup {j} /\ j \in ActiveRows'
      BY <2>2, InsertRowType, SentinelAssumption DEF ActiveRows, Rows, Active
    <3>2. Key(j)' \notin ActiveKeys
      BY <2>2, InsertRowType DEF InsertRow, Key
    <3>3. \A i \in JobIds \ {j} : Key(i)' = Key(i)
      BY <2>2, InsertRowType DEF Key
    <3>4. \A i \in ActiveRows' \ {j} : i \in ActiveRows /\ Key(i)' # Key(j)'
      BY <3>1, <3>2, <3>3 DEF ActiveKeys, ActiveRows, Rows
    <3> QED BY <3>1, <3>3, <3>4 DEF UniqueActive, ActiveRows, Rows
  <2> QED BY <2>1, <2>2, StepShape DEF InsertsRow
<1> QED BY <1>1, <1>2, TypeCorrect, PTL DEF Spec

-----------------------------------------------------------------------------

(* A row was inserted once, and the rows of later INSERTs have higher      *)
(* numbers: MAX(seq) + 1 passes every row that is still there.             *)
SeqInv ==
  /\ Rows \subseteq Issued
  /\ SeqFollowsArrival

LEMMA AppendFacts ==
  ASSUME NEW j \in JobIds, issued \in Seq(JobIds), issued' = Append(issued, j)
  PROVE  /\ DOMAIN issued' = DOMAIN issued \cup {Len(issued) + 1}
         /\ issued'[Len(issued) + 1] = j
         /\ \A m \in DOMAIN issued : issued'[m] = issued[m] /\ m < Len(issued) + 1
         /\ Issued' = Issued \cup {j}
<1>1. /\ DOMAIN issued' = DOMAIN issued \cup {Len(issued) + 1}
      /\ issued'[Len(issued) + 1] = j
      /\ \A m \in DOMAIN issued : issued'[m] = issued[m] /\ m < Len(issued) + 1
  OBVIOUS
<1> QED BY <1>1 DEF Issued

LEMMA SeqInvariant == Spec => []SeqInv
<1>1. Init => SeqInv
  BY DEF Init, SeqInv, SeqFollowsArrival, Rows
<1>2. TypeOK /\ SeqInv /\ [Next]_vars => SeqInv'
  <2> SUFFICES ASSUME TypeOK, SeqInv, [Next]_vars PROVE SeqInv'
    OBVIOUS
  <2>1. CASE KeepsRows /\ UNCHANGED issued
    <3>1. Rows' \subseteq Rows /\ \A j \in Rows' : jobs'[j].seq = jobs[j].seq
      BY <2>1 DEF KeepsRows, KeepsRow, Rows
    <3> QED BY <2>1, <3>1 DEF SeqInv, SeqFollowsArrival, Issued
  <2>2. ASSUME NEW c \in Callers, NEW j \in JobIds, NEW k \in Nat, InsertRow(c, j, k)
        PROVE SeqInv'
    <3>1. issued' = Append(issued, j) /\ j \notin Issued
      BY <2>2 DEF InsertRow
    <3>2. Rows' \subseteq Rows \cup {j} /\ \A i \in Rows' \ {j} : jobs'[i].seq = jobs[i].seq
      BY <2>2, InsertRowType DEF Rows
    <3>3. jobs'[j].seq = k /\ \A i \in Rows : jobs[i].seq < k
      BY <2>2, InsertRowType DEF InsertRow, NextSeq
    <3>4. Rows' \subseteq Issued'
      BY <3>1, <3>2, AppendFacts DEF SeqInv, TypeOK
    <3>5. ASSUME NEW m \in DOMAIN issued', NEW o \in DOMAIN issued', m < o,
                 {issued'[m], issued'[o]} \subseteq Rows'
          PROVE  jobs'[issued'[m]].seq < jobs'[issued'[o]].seq
      <4>1. m \in DOMAIN issued /\ issued'[m] = issued[m] /\ issued[m] \in Rows \ {j}
        BY <3>1, <3>2, <3>5, AppendFacts DEF Issued, TypeOK
      <4>2. CASE o \in DOMAIN issued
        <5>1. issued'[o] = issued[o] /\ issued[o] \in Rows \ {j}
          BY <3>1, <3>2, <3>5, <4>2, AppendFacts DEF Issued, TypeOK
        <5> QED BY <3>2, <3>5, <4>1, <4>2, <5>1 DEF SeqInv, SeqFollowsArrival
      <4>3. CASE o = Len(issued) + 1
        BY <3>1, <3>2, <3>3, <3>5, <4>1, <4>3, AppendFacts DEF TypeOK
      <4> QED BY <3>1, <4>2, <4>3, AppendFacts DEF TypeOK
    <3> QED BY <3>4, <3>5 DEF SeqInv, SeqFollowsArrival
  <2> QED BY <2>1, <2>2, StepShape DEF InsertsRow
<1> QED BY <1>1, <1>2, TypeCorrect, PTL DEF Spec

(* First in, first out: seq follows the order of the INSERTs for good.     *)
THEOREM SeqIsArrivalOrder == Spec => []SeqFollowsArrival
<1>1. SeqInv => SeqFollowsArrival
  BY DEF SeqInv
<1> QED BY <1>1, SeqInvariant, PTL

-----------------------------------------------------------------------------

(* The room an application has left, between the COUNT and the INSERT: the *)
(* rows that count towards the limit and the requests that found room.     *)
Queued(a)    == {j \in PendingOf(a) : ~jobs[j].retry}
Inserting(a) == {c \in Callers : pc[c] = "insert" /\ op[c].app = a /\ op[c].orig = NoJob}

RoomInv ==
  /\ IsFiniteSet(Rows)
  /\ \A a \in Apps : Cardinality(Queued(a)) + Cardinality(Inserting(a))
                       <= MaxPending + Cardinality(Callers) - 1

LEMMA RoomTypes ==
  ASSUME IsFiniteSet(Rows), NEW a \in Apps
  PROVE  /\ IsFiniteSet(PendingOf(a)) /\ Cardinality(PendingOf(a)) \in Nat
         /\ IsFiniteSet(Queued(a)) /\ Cardinality(Queued(a)) \in Nat
         /\ IsFiniteSet(Inserting(a)) /\ Cardinality(Inserting(a)) \in Nat
         /\ Cardinality(Queued(a)) <= Cardinality(PendingOf(a))
         /\ Cardinality(Callers) \in Nat
<1>1. PendingOf(a) \in SUBSET Rows /\ Queued(a) \in SUBSET PendingOf(a)
  BY DEF PendingOf, Queued, RowsOf
<1>2. Inserting(a) \in SUBSET Callers
  BY DEF Inserting
<1>3. IsFiniteSet(PendingOf(a)) /\ IsFiniteSet(Queued(a)) /\ IsFiniteSet(Inserting(a))
  BY <1>1, <1>2, FS_Subset, FiniteCallersAssumption
<1>4. Cardinality(Queued(a)) <= Cardinality(PendingOf(a))
  BY <1>1, <1>3, FS_Subset
<1> QED BY <1>3, <1>4, FS_CardinalityType, FiniteCallersAssumption

(* Neither set grows: there is as much room as before.                     *)
LEMMA RoomShrinks ==
  ASSUME RoomInv, Rows' \subseteq Rows,
         \A a \in Apps : Queued(a)' \subseteq Queued(a) /\ Inserting(a)' \subseteq Inserting(a)
  PROVE  RoomInv'
<1>1. IsFiniteSet(Rows')
  BY FS_Subset DEF RoomInv
<1>2. ASSUME NEW a \in Apps
      PROVE  Cardinality(Queued(a)') + Cardinality(Inserting(a)')
               <= MaxPending + Cardinality(Callers) - 1
  <2>1. /\ Cardinality(Queued(a)') <= Cardinality(Queued(a))
        /\ Cardinality(Inserting(a)') <= Cardinality(Inserting(a))
        /\ Cardinality(Queued(a)') \in Nat /\ Cardinality(Inserting(a)') \in Nat
    <3>1. IsFiniteSet(Queued(a)) /\ IsFiniteSet(Inserting(a))
      BY RoomTypes DEF RoomInv
    <3> QED BY <3>1, FS_Subset, FS_CardinalityType
  <2> QED BY <2>1, RoomTypes, MaxPendingAssumption DEF RoomInv
<1> QED BY <1>1, <1>2 DEF RoomInv

LEMMA KeepsQueued ==
  ASSUME TypeOK, KeepsRows
  PROVE  Rows' \subseteq Rows /\ \A a \in Apps : Queued(a)' \subseteq Queued(a)
  BY DEF KeepsRows, KeepsRow, Queued, PendingOf, RowsOf, Rows

(* The callers that a step of caller c moves, seen from Inserting.         *)
LEMMA LeavesInserting ==
  ASSUME TypeOK, NEW c \in Callers, NEW l, Goto(c, l), NEW a,
         l = "insert" => UNCHANGED op /\ op[c].orig # NoJob,
         UNCHANGED op \/ \E o : op' = [op EXCEPT ![c] = o]
  PROVE  Inserting(a)' \subseteq Inserting(a) \ {c}
  BY DEF TypeOK, Goto, Inserting

LEMMA ReturnLeaves ==
  ASSUME TypeOK, NEW c \in Callers, Return(c) \/ Wrote(c), NEW a
  PROVE  Inserting(a)' \subseteq Inserting(a) \ {c}
  BY LeavesInserting DEF Return, Wrote

(* A request that found room is counted until its INSERT.                  *)
LEMMA CountPendingRoom ==
  ASSUME TypeOK, RoomInv, NEW c \in Callers, CountPending(c)
  PROVE  RoomInv'
<1>1. Rows' = Rows /\ \A a \in Apps : Queued(a)' = Queued(a)
  BY DEF CountPending, Rows, Queued, PendingOf, RowsOf
<1>2. CASE Return(c)
  <2>1. \A a \in Apps : Inserting(a)' \subseteq Inserting(a)
    BY <1>2, ReturnLeaves
  <2> QED BY <1>1, <2>1, RoomShrinks
<1>3. CASE Cardinality(PendingOf(op[c].app)) < MaxPending /\ Goto(c, "insert") /\ UNCHANGED op
  <2>1. \A a \in Apps : c \notin Inserting(a)
    BY DEF CountPending, Inserting
  <2>2. \A a \in Apps : Inserting(a)' \subseteq Inserting(a) \cup {c}
    BY <1>3 DEF Goto, TypeOK, Inserting
  <2>3. \A a \in Apps : a # op[c].app => Inserting(a)' \subseteq Inserting(a)
    BY <1>3 DEF Goto, TypeOK, Inserting
  <2>4. ASSUME NEW a \in Apps
        PROVE  Cardinality(Queued(a)') + Cardinality(Inserting(a)')
                 <= MaxPending + Cardinality(Callers) - 1
    <3>1. /\ IsFiniteSet(Inserting(a)) /\ IsFiniteSet(Inserting(a)')
          /\ Cardinality(Inserting(a)) \in Nat /\ Cardinality(Inserting(a)') \in Nat
      <4>1. Inserting(a)' \in SUBSET Callers
        BY DEF Inserting
      <4> QED BY <4>1, RoomTypes, FS_Subset, FS_CardinalityType, FiniteCallersAssumption DEF RoomInv
    <3>2. CASE a = op[c].app
      <4>1. Cardinality(Inserting(a)') <= Cardinality(Callers)
        <5>1. Inserting(a)' \in SUBSET Callers
          BY DEF Inserting
        <5> QED BY <5>1, FS_Subset, FiniteCallersAssumption
      <4>2. Cardinality(Queued(a)') < MaxPending
        BY <1>1, <1>3, <3>2, RoomTypes, MaxPendingAssumption DEF RoomInv
      <4> QED BY <1>1, <3>1, <4>1, <4>2, RoomTypes, MaxPendingAssumption DEF RoomInv
    <3>3. CASE a # op[c].app
      <4>1. Cardinality(Inserting(a)') <= Cardinality(Inserting(a))
        BY <2>3, <3>1, <3>3, FS_Subset
      <4> QED BY <1>1, <3>1, <4>1, RoomTypes, MaxPendingAssumption DEF RoomInv
    <3> QED BY <3>2, <3>3
  <2> QED BY <1>1, <2>4 DEF RoomInv
<1> QED BY <1>2, <1>3 DEF CountPending

(* The INSERT gives the room it was counted for to its row.                *)
LEMMA InsertRowRoom ==
  ASSUME TypeOK, RoomInv, NEW c \in Callers, NEW j \in JobIds, NEW k \in Nat, InsertRow(c, j, k)
  PROVE  RoomInv'
<1>1. IsFiniteSet(Rows')
  <2>1. Rows' \subseteq Rows \cup {j}
    BY InsertRowType DEF Rows
  <2>2. IsFiniteSet(Rows \cup {j})
    BY FS_AddElement DEF RoomInv
  <2> QED BY <2>1, <2>2, FS_Subset
<1>2. ASSUME NEW a \in Apps
      PROVE  Cardinality(Queued(a)') + Cardinality(Inserting(a)')
               <= MaxPending + Cardinality(Callers) - 1
  <2>1. Inserting(a)' \subseteq Inserting(a) \ {c}
    BY ReturnLeaves DEF InsertRow
  <2>2. Queued(a)' \subseteq Queued(a) \cup {j}
    BY InsertRowType DEF Queued, PendingOf, RowsOf, Rows
  <2>3. c \notin Inserting(a) => Queued(a)' \subseteq Queued(a)
    <3>1. j \in Rows' /\ jobs'[j].retry = (op[c].orig # NoJob) /\ jobs'[j].app = op[c].app
      BY InsertRowType, SentinelAssumption DEF InsertRow, TypeOK, Rows
    <3> QED BY <2>2, <3>1 DEF Queued, PendingOf, RowsOf, Inserting, InsertRow
  <2>4. /\ IsFiniteSet(Inserting(a)) /\ Cardinality(Inserting(a)) \in Nat
        /\ IsFiniteSet(Queued(a)) /\ Cardinality(Queued(a)) \in Nat
    BY RoomTypes DEF RoomInv
  <2>5. Cardinality(Queued(a)') \in Nat /\ Cardinality(Inserting(a)') \in Nat
    <3>1. IsFiniteSet(Queued(a) \cup {j})
      BY <2>4, FS_AddElement
    <3>2. IsFiniteSet(Queued(a)') /\ IsFiniteSet(Inserting(a)')
      BY <2>1, <2>2, <2>4, <3>1, FS_Subset
    <3> QED BY <3>2, FS_CardinalityType
  <2>6. CASE c \in Inserting(a)
    <3>1. Cardinality(Inserting(a)') <= Cardinality(Inserting(a)) - 1
      <4>1. /\ IsFiniteSet(Inserting(a) \ {c})
            /\ Cardinality(Inserting(a) \ {c}) = Cardinality(Inserting(a)) - 1
        BY <2>4, <2>6, FS_RemoveElement
      <4> QED BY <2>1, <4>1, FS_Subset
    <3>2. Cardinality(Queued(a)') <= Cardinality(Queued(a)) + 1
      <4>1. /\ IsFiniteSet(Queued(a) \cup {j})
            /\ \/ Cardinality(Queued(a) \cup {j}) = Cardinality(Queued(a))
               \/ Cardinality(Queued(a) \cup {j}) = Cardinality(Queued(a)) + 1
        BY <2>4, FS_AddElement
      <4>2. Cardinality(Queued(a)') <= Cardinality(Queued(a) \cup {j})
        BY <2>2, <4>1, FS_Subset
      <4> QED BY <2>4, <2>5, <4>1, <4>2
    <3> QED BY <2>4, <2>5, <3>1, <3>2, RoomTypes, MaxPendingAssumption DEF RoomInv
  <2>7. CASE c \notin Inserting(a)
    <3>1. /\ Cardinality(Inserting(a)') <= Cardinality(Inserting(a))
          /\ Cardinality(Queued(a)') <= Cardinality(Queued(a))
      BY <2>1, <2>3, <2>4, <2>7, FS_Subset
    <3> QED BY <2>4, <2>5, <3>1, RoomTypes, MaxPendingAssumption DEF RoomInv
  <2> QED BY <2>6, <2>7
<1> QED BY <1>1, <1>2 DEF RoomInv

(* Nobody else gets to the INSERT of a job that is not a retry.            *)
LEMMA OthersKeepInserting ==
  ASSUME TypeOK, [Next]_vars, NEW a \in Apps,
         \A c \in Callers : ~CountPending(c)
  PROVE  Inserting(a)' \subseteq Inserting(a)
<1>1. ASSUME NEW c \in Callers, Request(c) PROVE Inserting(a)' \subseteq Inserting(a)
  <2>1. ASSUME NEW o, NEW l, Submit(c, o, l), l # "insert" PROVE Inserting(a)' \subseteq Inserting(a)
    BY <2>1, LeavesInserting DEF Submit
  <2>2. ASSUME NEW b \in Apps, NEW t \in Tags, Admit(c, b, t) \/ ManualDeploy(c, b, t)
        PROVE Inserting(a)' \subseteq Inserting(a)
    BY <2>1, <2>2 DEF Admit, ManualDeploy
  <2>3. ASSUME NEW j \in JobIds, RetryHistoryJob(c, j) PROVE Inserting(a)' \subseteq Inserting(a)
    BY <2>1, <2>3 DEF RetryHistoryJob
  <2>4. CASE CheckOriginal(c)
    BY <2>4, ReturnLeaves, LeavesInserting DEF CheckOriginal
  <2>5. ASSUME NEW m, Decide(c, m) PROVE Inserting(a)' \subseteq Inserting(a)
    BY <2>5, ReturnLeaves, LeavesInserting DEF Decide
  <2>6. CASE LookupHit(c)
    BY <2>5, <2>6 DEF LookupHit
  <2>7. CASE LookupLock(c)
    BY <2>7 DEF LookupLock, Inserting
  <2>8. CASE LookupQuery(c)
    BY <2>8 DEF LookupQuery, Inserting
  <2>9. CASE LookupPublish(c)
    BY <2>5, <2>9 DEF LookupPublish
  <2>10. CASE LookupFail(c)
    BY <2>10, ReturnLeaves DEF LookupFail
  <2>11. CASE Insert(c)
    BY <2>11, ReturnLeaves DEF Insert, InsertRow, InsertFail
  <2> QED BY <1>1, <2>2, <2>3, <2>4, <2>6, <2>7, <2>8, <2>9, <2>10, <2>11 DEF Request
<1>2. ASSUME NEW c \in Callers, Control(c) \/ Deploy(c) PROVE Inserting(a)' \subseteq Inserting(a)
  BY <1>2, WriteType, ReturnLeaves DEF TypedWrite, Write
<1>3. ASSUME NEW c \in Callers, Invalidate(c) PROVE Inserting(a)' \subseteq Inserting(a)
  BY <1>3, ReturnLeaves DEF Invalidate
<1>4. CASE Restart
  BY <1>4 DEF Restart, Inserting
<1>5. CASE UNCHANGED <<pc, op>>
  BY <1>5 DEF Inserting
<1> QED BY <1>1, <1>2, <1>3, <1>4, <1>5 DEF Next, SetEnabled, vars

(* The queued jobs of an application exceed the limit by no more than the  *)
(* requests that raced between PendingCount and INSERT, whatever their     *)
(* number: a request is let through only while there is room, and the      *)
(* others that were let through before it are callers too.                 *)
THEOREM OvershootIsBounded == Spec => []Overshoot
<1>1. Init => RoomInv
  <2> SUFFICES ASSUME Init PROVE RoomInv
    OBVIOUS
  <2>1. Rows = {} /\ \A a \in Apps : Queued(a) = {} /\ Inserting(a) = {}
    BY DEF Init, Rows, Queued, PendingOf, RowsOf, Inserting
  <2>2. Cardinality(Callers) \in Nat
    BY FS_CardinalityType, FiniteCallersAssumption
  <2>3. IsFiniteSet({}) /\ Cardinality({}) = 0
    BY FS_EmptySet
  <2> QED BY <2>1, <2>2, <2>3, MaxPendingAssumption DEF RoomInv
<1>2. TypeOK /\ RoomInv /\ [Next]_vars => RoomInv'
  <2> SUFFICES ASSUME TypeOK, RoomInv, [Next]_vars PROVE RoomInv'
    OBVIOUS
  <2>1. CASE \E c \in Callers : CountPending(c)
    BY <2>1, CountPendingRoom
  <2>2. CASE InsertsRow
    BY <2>2, InsertRowRoom DEF InsertsRow
  <2>3. CASE KeepsRows /\ \A c \in Callers : ~CountPending(c)
    BY <2>3, KeepsQueued, OthersKeepInserting, RoomShrinks
  <2> QED BY <2>1, <2>2, <2>3, StepShape
<1>3. RoomInv => Overshoot
  BY RoomTypes, MaxPendingAssumption DEF RoomInv, Overshoot, Queued
<1> QED BY <1>1, <1>2, <1>3, TypeCorrect, PTL DEF Spec

-----------------------------------------------------------------------------

LEMMA LifeUnchanged == UNCHANGED <<jobs, issued>> => UNCHANGED Life
  BY DEF Life, Rows, Issued

LEMMA LifeUpdate ==
  ASSUME TypeOK, NEW S, S \subseteq Rows, NEW s \in Active \cup Terminal,
         jobs' = Update(S, s), UNCHANGED issued
  PROVE  Lifecycle!Move(S, s)
<1>1. /\ Rows' = Rows /\ Issued' = Issued
      /\ \A j \in Rows : jobs'[j].status = IF j \in S THEN s ELSE jobs[j].status
  <2>1. Issued' = Issued
    BY DEF Issued
  <2>2. ASSUME NEW j \in JobIds
        PROVE  /\ jobs'[j] # NoJob <=> jobs[j] # NoJob
               /\ jobs[j] # NoJob => jobs'[j].status = IF j \in S THEN s ELSE jobs[j].status
    <3>1. CASE j \in S
      <4>1. jobs[j] \in Row /\ jobs'[j] = [jobs[j] EXCEPT !.status = s]
        BY <3>1 DEF TypeOK, Rows, Update
      <4>2. jobs'[j] \in Row /\ jobs'[j].status = s
        BY <4>1 DEF Row
      <4> QED BY <3>1, <4>1, <4>2, SentinelAssumption
    <3>2. CASE j \notin S
      BY <3>2 DEF Update
    <3> QED BY <3>1, <3>2
  <2> QED BY <2>1, <2>2 DEF Rows
<1> QED BY <1>1 DEF Life, Lifecycle!Move, Rows

LEMMA LifeCancel ==
  ASSUME TypeOK, NEW S, S \subseteq Rows, CancelAll(S), UNCHANGED issued
  PROVE  Lifecycle!Cancel(S)
<1>1. ASSUME NEW j \in S, NEW s, jobs'[j] = [jobs[j] EXCEPT !.status = s]
      PROVE  jobs'[j] # NoJob => jobs'[j].status = s
  BY <1>1 DEF TypeOK, Rows, Row
<1>2. \A j \in JobIds : jobs'[j] # NoJob <=> jobs[j] # NoJob
  <2> TAKE j \in JobIds
  <2>1. ASSUME j \in S, NEW s \in {"canceled", "cancel_requested"}
        PROVE  [jobs[j] EXCEPT !.status = s] \in Row
    BY <2>1 DEF TypeOK, Rows, Row, Active, Running, Terminal
  <2> QED BY <2>1, SentinelAssumption DEF CancelAll, Rows
<1>3. Rows' = Rows /\ Issued' = Issued
  BY <1>2 DEF Rows, Issued
<1>4. ASSUME NEW j \in JobIds
      PROVE  Life'[j] = CASE j \in S /\ Life[j] = "pending"     -> "canceled"
                          [] j \in S /\ Life[j] = "in_progress" -> "cancel_requested"
                          [] OTHER                              -> Life[j]
  <2>1. CASE j \in S /\ jobs[j].status = "pending"
    <3>1. jobs'[j] = [jobs[j] EXCEPT !.status = "canceled"]
      BY <2>1 DEF CancelAll
    <3> QED BY <1>1, <1>3, <2>1, <3>1 DEF Life, Rows
  <2>2. CASE j \in S /\ jobs[j].status = "in_progress"
    <3>1. jobs'[j] = [jobs[j] EXCEPT !.status = "cancel_requested"]
      BY <2>2 DEF CancelAll
    <3> QED BY <1>1, <1>3, <2>2, <3>1 DEF Life, Rows
  <2>3. CASE ~(j \in S /\ jobs[j].status \in {"pending", "in_progress"})
    <3>1. jobs'[j] = jobs[j]
      BY <2>3 DEF CancelAll
    <3> QED BY <1>3, <2>3, <3>1 DEF Life, Rows
  <2> QED BY <2>1, <2>2, <2>3
<1>5. DOMAIN Life' = JobIds /\ Life' = [j \in JobIds |-> Life'[j]]
  BY DEF Life
<1> QED BY <1>4, <1>5 DEF Lifecycle!Cancel

(* The queue implements the life of a job: whatever races, a job starts at *)
(* most once and its end is final.                                         *)
THEOREM QueueImplementsLifecycle == Spec => ImplementsLifecycle
<1>1. Init => Lifecycle!Init
  BY DEF Init, Lifecycle!Init, Life, Rows, Issued
<1>2. TypeOK /\ SeqInv /\ [Next]_vars => [Lifecycle!Next]_Life
  <2> SUFFICES ASSUME TypeOK, SeqInv, [Next]_vars PROVE [Lifecycle!Next]_Life
    OBVIOUS
  <2>1. ASSUME NEW c \in Callers, NEW j \in JobIds, NEW k \in Nat, InsertRow(c, j, k)
        PROVE Lifecycle!Next
    <3>1. j \notin Issued /\ j \notin Rows /\ Issued' = Issued \cup {j}
      BY <2>1, AppendFacts DEF InsertRow, SeqInv, TypeOK
    <3>2. Rows' = Rows \cup {j} /\ jobs'[j].status = "pending"
      BY <2>1, InsertRowType, SentinelAssumption DEF Rows
    <3>3. \A i \in JobIds \ {j} : jobs'[i] = jobs[i]
      BY <2>1, InsertRowType
    <3>4. Life[j] = "none" /\ Life' = [i \in JobIds |-> IF i \in {j} THEN "pending" ELSE Life[i]]
      BY <3>1, <3>2, <3>3 DEF Life, Rows
    <3> QED BY <3>4 DEF Lifecycle!Next, Lifecycle!Submit, Lifecycle!Move
  <2>2. ASSUME NEW c \in Callers, Request(c) PROVE [Lifecycle!Next]_Life
    <3>1. ASSUME NEW j \in JobIds, NEW k \in 1..(Len(issued) + 1), InsertRow(c, j, k)
          PROVE Lifecycle!Next
      BY <2>1, <3>1 DEF TypeOK
    <3> QED
      BY <2>2, <3>1, LifeUnchanged
         DEF Request, Admit, ManualDeploy, RetryHistoryJob, Submit, CheckOriginal, LookupHit,
             LookupLock, LookupQuery, LookupPublish, LookupFail, CountPending, Insert, InsertFail
  <2>3. ASSUME NEW c \in Callers, Control(c) PROVE [Lifecycle!Next]_Life
    <3>1. UNCHANGED issued
      BY <2>3, WriteType DEF TypedWrite, Write
    <3>2. ASSUME NEW S \in SUBSET Rows, CancelAll(S) PROVE Lifecycle!Next
      BY <3>1, <3>2, LifeCancel DEF Lifecycle!Next, Rows
    <3>3. ASSUME NEW j \in JobIds, RequestJobCancel(c, j) PROVE Lifecycle!Next
      BY <3>2, <3>3 DEF RequestJobCancel
    <3>4. ASSUME NEW a \in Apps, RequestAppCancel(c, a) PROVE Lifecycle!Next
      BY <3>2, <3>4 DEF RequestAppCancel, RowsOf
    <3>5. ASSUME NEW a \in Apps, DeleteApp(c, a) PROVE Lifecycle!Next
      <4>1. Lifecycle!Move(RowsOf(a), "removed")
        BY <3>1, <3>5 DEF DeleteApp, SeqInv, Lifecycle!Move, Life, Rows, RowsOf, Issued
      <4>2. RowsOf(a) \cap Lifecycle!At(Lifecycle!Underway) = {}
        BY <3>5 DEF DeleteApp, RunningOf, RowsOf, Running, Lifecycle!At, Lifecycle!Underway, Life
      <4>3. RowsOf(a) \subseteq Lifecycle!At(Lifecycle!Stages \ {"none"})
        BY JobsType DEF RowsOf, Active, Running, Terminal, Lifecycle!At, Lifecycle!Stages, Life
      <4> QED BY <4>1, <4>2, <4>3 DEF Lifecycle!Next, Lifecycle!Remove, RowsOf, Rows
    <3> QED BY <2>3, <3>3, <3>4, <3>5 DEF Control
  <2>4. ASSUME NEW c \in Callers, Deploy(c) PROVE [Lifecycle!Next]_Life
    <3>1. UNCHANGED issued
      BY <2>4, WriteType DEF TypedWrite, Write
    <3>2. ASSUME NEW a \in Apps, NEW j \in JobIds, DequeueNext(c, a, j) PROVE Lifecycle!Next
      <4>1. j \in Rows /\ jobs[j].status = "pending" /\ jobs' = Update({j}, "in_progress")
        BY <3>2 DEF DequeueNext, Oldest, PendingOf, RowsOf
      <4>2. Lifecycle!Move({j}, "in_progress") /\ Life[j] = "pending"
        BY <3>1, <4>1, LifeUpdate DEF Active, Running, Life
      <4> QED BY <4>2 DEF Lifecycle!Next, Lifecycle!Start
    <3>3. ASSUME NEW j \in JobIds, NEW ok \in BOOLEAN, MarkDone(c, j, ok)
          PROVE  Lifecycle!Next \/ UNCHANGED Life
      <4>1. CASE j \in Rows /\ jobs[j].status \in Running
        <5> DEFINE s == IF ok THEN "succeeded" ELSE "failed"
        <5>1. jobs' = Update({j}, s)
          BY <3>3, <4>1 DEF MarkDone, Update
        <5>2. Lifecycle!Move({j}, s) /\ Life[j] \in Lifecycle!Underway
          BY <3>1, <4>1, <5>1, LifeUpdate DEF Terminal, Running, Life, Lifecycle!Underway
        <5> QED BY <5>2 DEF Lifecycle!Next, Lifecycle!Finish
      <4>2. CASE ~(j \in Rows /\ jobs[j].status \in Running)
        <5>1. UNCHANGED jobs
          BY <3>3, <4>2 DEF MarkDone, Update, TypeOK
        <5> QED BY <3>1, <5>1, LifeUnchanged
      <4> QED BY <4>1, <4>2
    <3>4. ASSUME NEW j \in JobIds, NEW s \in Terminal, MarkTerminal(c, j, s) PROVE Lifecycle!Next
      <4>1. Lifecycle!Move({j}, s) /\ Life[j] = "cancel_requested" /\ s \in {"canceled", "failed"}
        BY <3>1, <3>4, LifeUpdate DEF MarkTerminal, Life
      <4> QED BY <4>1 DEF Lifecycle!Next, Lifecycle!Finish, Lifecycle!Underway
    <3>5. CASE SaveJobLog(c) \/ WriteFail(c)
      BY <3>1, <3>5, LifeUnchanged DEF SaveJobLog, WriteFail
    <3> QED BY <2>4, <3>2, <3>3, <3>4, <3>5 DEF Deploy
  <2>5. CASE Restart
    <3>1. CASE jobs' = Update({j \in Rows : jobs[j].status \in Running}, "failed")
      <4>1. {j \in Rows : jobs[j].status \in Running} = Lifecycle!At(Lifecycle!Underway)
        BY DEF Running, Lifecycle!At, Lifecycle!Underway, Life, Rows
      <4> QED BY <2>5, <3>1, <4>1, LifeUpdate DEF Restart, Terminal, Lifecycle!Next, Lifecycle!Recover
    <3>2. CASE UNCHANGED jobs
      BY <2>5, <3>2, LifeUnchanged DEF Restart
    <3> QED BY <2>5, <3>1, <3>2 DEF Restart, RecoverStale
  <2> QED
    BY <2>2, <2>3, <2>4, <2>5, LifeUnchanged DEF Next, Invalidate, SetEnabled, vars
<1> QED
  BY <1>1, <1>2, TypeCorrect, SeqInvariant, PTL DEF Spec, ImplementsLifecycle, Lifecycle!Spec

=============================================================================
