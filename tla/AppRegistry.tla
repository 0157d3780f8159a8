----------------------------- MODULE AppRegistry -----------------------------
(***************************************************************************)
(* AppStore (internal/store/app_store.go) as webhooks see it: the table    *)
(* apps, and the snapshot of it that GetBySecretHash answers from.         *)
(* Handlers create, change and delete applications while webhooks are      *)
(* authenticated.  A write to the table and the call that drops the        *)
(* snapshot are two steps; a rebuild holds secretHashCacheMu from its      *)
(* second look at the snapshot until it has published one.                 *)
(***************************************************************************)
EXTENDS Naturals

CONSTANTS
  Registrable,       \* Identities of applications.
  Secrets,
  Handlers,          \* Goroutines of requests.
  NoRow, Nobody, NoTable,
  MaxWrites          \* Bound: writes to the table.

Row == [secret : Secrets, enabled : BOOLEAN]
Tables == [Secrets -> Registrable \cup {Nobody}]

ASSUME RegistryAssumption ==
  /\ NoRow \notin Row /\ Nobody \notin Registrable \cup Handlers \cup Secrets /\ NoTable \notin Tables
  /\ MaxWrites \in Nat

VARIABLES
  rowOf,         \* The table apps: secret hash and enabled.
  hashCache,     \* secretHashCache.
  cacheLock,     \* Who holds secretHashCacheMu.
  building,      \* The snapshot its holder has read, before it is published.
  step,          \* Where each handler is.
  presented,     \* The secret of its webhook.
  verdict,       \* The application GetBySecretHash returned.
  writes,        \* Counts towards MaxWrites.
  past,          \* Replaced tables, with the writes since that have not returned.
  allowed        \* The tables each webhook may be answered from.

readerVars == <<presented, verdict>>
registryVars == <<rowOf, hashCache, cacheLock, building, step, readerVars, writes, past, allowed>>

(* Who is enabled with a secret; the column is UNIQUE.                     *)
HasSecret(a, s) == rowOf[a] # NoRow /\ rowOf[a].secret = s
AppOf(s) ==
  IF \E a \in Registrable : HasSecret(a, s) /\ rowOf[a].enabled
  THEN CHOOSE a \in Registrable : HasSecret(a, s) /\ rowOf[a].enabled
  ELSE Nobody
Current == [s \in Secrets |-> AppOf(s)]

Distinct(rows) ==
  \A a, b \in Registrable :
    rows[a] # NoRow /\ rows[b] # NoRow /\ rows[a].secret = rows[b].secret => a = b

RegistryInit ==
  /\ rowOf \in [Registrable -> Row \cup {NoRow}] /\ Distinct(rowOf)
  /\ hashCache = NoTable /\ cacheLock = Nobody /\ building = NoTable
  /\ step = [h \in Handlers |-> "idle"]
  /\ presented = [h \in Handlers |-> Nobody] /\ verdict = [h \in Handlers |-> Nobody]
  /\ writes = 0 /\ past = {} /\ allowed = [h \in Handlers |-> {}]

Enter(h, place) == step' = [step EXCEPT ![h] = place]

-----------------------------------------------------------------------------
(* A webhook: GetBySecretHash and loadSecretHashCache.                     *)

Replaced == {p.table : p \in past}

Present(h, s) ==
  /\ step[h] = "idle" /\ Enter(h, "lookup")
  /\ presented' = [presented EXCEPT ![h] = s]
  /\ allowed' = [allowed EXCEPT ![h] = {Current} \cup Replaced]
  /\ UNCHANGED <<rowOf, hashCache, cacheLock, building, verdict, writes, past>>

AnswerFrom(h, table) ==
  /\ Enter(h, "answered") /\ verdict' = [verdict EXCEPT ![h] = table[presented[h]]]
  /\ UNCHANGED <<rowOf, presented, writes, past, allowed>>

(* The first look, without the mutex, or the second, which finds what      *)
(* another handler has published meanwhile.                                *)
HashHit(h) ==
  /\ step[h] = "lookup" /\ hashCache # NoTable
  /\ AnswerFrom(h, hashCache)
  /\ UNCHANGED <<hashCache, cacheLock, building>>

LockMiss(h) ==
  /\ step[h] = "lookup" /\ hashCache = NoTable /\ cacheLock = Nobody
  /\ Enter(h, "locked") /\ cacheLock' = h
  /\ UNCHANGED <<rowOf, hashCache, building, readerVars, writes, past, allowed>>

QueryApps(h) ==
  /\ step[h] = "locked"
  /\ Enter(h, "queried") /\ building' = Current
  /\ UNCHANGED <<rowOf, hashCache, cacheLock, readerVars, writes, past, allowed>>

(* The webhook is answered with an error.                                  *)
QueryAppsFails(h) ==
  /\ step[h] = "locked"
  /\ Enter(h, "idle") /\ cacheLock' = Nobody
  /\ presented' = [presented EXCEPT ![h] = Nobody] /\ allowed' = [allowed EXCEPT ![h] = {}]
  /\ UNCHANGED <<rowOf, hashCache, building, verdict, writes, past>>

PublishHashes(h) ==
  /\ step[h] = "queried"
  /\ hashCache' = building /\ AnswerFrom(h, building)
  /\ cacheLock' = Nobody /\ building' = NoTable

(* What becomes of the webhook is the queue's.                             *)
Admit(h) ==
  /\ step[h] = "answered" /\ Enter(h, "idle")
  /\ presented' = [presented EXCEPT ![h] = Nobody] /\ verdict' = [verdict EXCEPT ![h] = Nobody]
  /\ allowed' = [allowed EXCEPT ![h] = {}]
  /\ UNCHANGED <<rowOf, hashCache, cacheLock, building, writes, past>>

-----------------------------------------------------------------------------
(* The writers.  A statement that fails, a secret another application has  *)
(* and an application that is gone change nothing and drop nothing.        *)

Committed(h, rows) ==
  /\ step[h] = "idle" /\ Enter(h, "written")
  /\ writes < MaxWrites /\ writes' = writes + 1
  /\ Distinct(rows) /\ rowOf' = rows
  /\ past' = {[p EXCEPT !.by = @ \cup {h}] : p \in past} \cup {[table |-> Current, by |-> {h}]}
  /\ allowed' = [g \in Handlers |-> IF allowed[g] = {} THEN {} ELSE allowed[g] \cup {Current'}]
  /\ UNCHANGED <<hashCache, cacheLock, building, readerVars>>

Create(h, a, s) ==
  /\ rowOf[a] = NoRow
  /\ Committed(h, [rowOf EXCEPT ![a] = [secret |-> s, enabled |-> TRUE]])

(* UpdateWithOptionalSecret, RotateSecret and SetEnabled.  An edit writes  *)
(* the enabled flag its handler has read, so that it may undo a toggle:    *)
(* whichever flag it is, it is a choice.                                   *)
Change(h, a, s, flag) ==
  /\ rowOf[a] # NoRow
  /\ Committed(h, [rowOf EXCEPT ![a] = [secret |-> s, enabled |-> flag]])

(* Refused while a deploy of the application runs, which is not told here. *)
Delete(h, a) ==
  /\ rowOf[a] # NoRow
  /\ Committed(h, [rowOf EXCEPT ![a] = NoRow])

(* Variant: the snapshot is dropped without the mutex.                     *)
DropUnlocked(h) ==
  /\ step[h] = "written"
  /\ Enter(h, "idle") /\ hashCache' = NoTable
  /\ past' = {p \in past : h \notin p.by}
  /\ UNCHANGED <<rowOf, cacheLock, building, readerVars, writes, allowed>>

(* invalidateSecretHashCache, the last step of a write.                    *)
Drop(h) ==
  /\ step[h] = "written" /\ cacheLock = Nobody
  /\ Enter(h, "idle") /\ hashCache' = NoTable
  /\ past' = {p \in past : h \notin p.by}
  /\ UNCHANGED <<rowOf, cacheLock, building, readerVars, writes, allowed>>

RegistryNext ==
  \E h \in Handlers :
    \/ \E s \in Secrets : Present(h, s)
    \/ HashHit(h) \/ LockMiss(h) \/ QueryApps(h) \/ QueryAppsFails(h) \/ PublishHashes(h) \/ Admit(h)
    \/ \E a \in Registrable :
         \/ \E s \in Secrets : Create(h, a, s) \/ \E flag \in BOOLEAN : Change(h, a, s, flag)
         \/ Delete(h, a)
    \/ Drop(h)

-----------------------------------------------------------------------------

RegistryTypeOK ==
  /\ rowOf \in [Registrable -> Row \cup {NoRow}]
  /\ hashCache \in Tables \cup {NoTable} /\ building \in Tables \cup {NoTable}
  /\ cacheLock \in Handlers \cup {Nobody}
  /\ step \in [Handlers -> {"idle", "lookup", "locked", "queried", "answered", "written"}]
  /\ presented \in [Handlers -> Secrets \cup {Nobody}] /\ verdict \in [Handlers -> Registrable \cup {Nobody}]
  /\ writes \in 0 .. MaxWrites
  /\ past \subseteq [table : Tables, by : SUBSET Handlers]
  /\ allowed \in [Handlers -> SUBSET Tables]

(***************************************************************************)
(* secretHashCacheMu's comment and app_store_cache_race_test.go: a webhook *)
(* is answered as the table was at some moment of the request, or before a *)
(* write that had not returned when it began.  A secret is refused from    *)
(* the moment its rotation has returned, and one that was valid all along  *)
(* is accepted, for its own application.                                   *)
(***************************************************************************)
AnswersAreCurrent ==
  \A h \in Handlers : step[h] = "answered" =>
    \E table \in allowed[h] : verdict[h] = table[presented[h]]

=============================================================================
