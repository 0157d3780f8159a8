---------------------------- MODULE LiveProgress ----------------------------
(***************************************************************************)
(* AdminEventProvider (web/admin/src/AdminEventProvider.tsx), the page's   *)
(* side of live progress, composed with the tracker and the hub: the page  *)
(* dials, takes the frames of its connection one by one, and dials again   *)
(* after a delay when the connection is lost.  The delay, 1 to 30 seconds, *)
(* is any time here.  progress outlives a connection: nothing clears it.   *)
(***************************************************************************)
EXTENDS EventHub

CONSTANTS NoConn   \* The value of ws when the page has no connection.

VARIABLES
  mounted,    \* The provider is mounted.
  ws,         \* wsRef.
  connected,  \* state.connected.
  timer,      \* A call of connect is scheduled.
  progress    \* state.progress, by job.

pageVars == <<mounted, ws, connected, timer, progress>>
vars == <<hubVars, pageVars>>

Shown == [phase : Phases, done : 0 .. Chunks,
          status : Phases \cup {"in_progress", "cancel_requested", "canceled"}]

ASSUME PageAssumption == NoConn \notin Conns /\ NoEntry \notin Shown

Init ==
  /\ entries = [a \in Apps |-> NoEntry] /\ working = [a \in Apps |-> NoJob]
  /\ unused = JobIds /\ asked = {}
  /\ outbox = [g \in Goroutines |-> <<>>]
  /\ stage = [c \in Conns |-> "gone"] /\ clients = {}
  /\ chan = [c \in Conns |-> <<>>] /\ closes = [c \in Conns |-> 0]
  /\ wire = [c \in Conns |-> <<>>] /\ link = [c \in Conns |-> FALSE] /\ cuts = 0
  /\ mounted = TRUE /\ ws = NoConn /\ connected = FALSE /\ timer = TRUE
  /\ progress = [j \in JobIds |-> NoEntry]

-----------------------------------------------------------------------------
(* What a frame does to the page.                                          *)

(* progressStatusForStage, which the server puts in a compact frame.       *)
StatusForStage(phase) == IF phase \in {"succeeded", "failed"} THEN phase ELSE "in_progress"

ShownAs(e, status) == [phase |-> e.phase, done |-> e.done, status |-> status]

(* Variant: an item of a snapshot is kept as it came, without a status.    *)
TakeSnapshotAsIs(f) ==
  LET listed == {a \in Apps : f.entries[a] # NoEntry}
  IN  [j \in JobIds |->
         IF \E a \in listed : f.entries[a].job = j
         THEN f.entries[CHOOSE a \in listed : f.entries[a].job = j]
         ELSE progress[j]]

(* An item of a snapshot has no status: its phase is taken for one.        *)
TakeSnapshot(f) ==
  LET listed == {a \in Apps : f.entries[a] # NoEntry}
  IN  [j \in JobIds |->
         IF \E a \in listed : f.entries[a].job = j
         THEN LET e == f.entries[CHOOSE a \in listed : f.entries[a].job = j]
              IN  ShownAs(e, e.phase)
         ELSE progress[j]]

TakeProgress(e) == [progress EXCEPT ![e.job] = ShownAs(e, StatusForStage(e.phase))]

(* job_status and cancel_requested look for the job in the payload.        *)
TakeStatus(f) ==
  IF f.payloadJob # NoJob /\ progress[f.payloadJob] # NoEntry
  THEN [progress EXCEPT ![f.payloadJob].status = f.status]
  ELSE progress

(* getCurrentActivity of ProgressBadge.tsx: what the badge says a deploy   *)
(* does.  The status counts when it is one that ends a deploy.             *)
TerminalStatuses == {"cancel_requested", "canceled", "succeeded", "failed"}
CurrentActivity(p) == IF p.status \in TerminalStatuses THEN p.status ELSE p.phase

Taken(f) == CASE f.kind = "p"        -> TakeProgress(f.entry)
              [] f.kind = "snapshot" -> TakeSnapshot(f)
              [] OTHER               -> TakeStatus(f)

-----------------------------------------------------------------------------
(* The page.                                                               *)

(* connect, called when the page opens and by the timer, and               *)
(* websocket.Accept.                                                       *)
Connect(c) ==
  /\ mounted /\ timer /\ stage[c] = "gone"
  /\ timer' = FALSE /\ ws' = c
  /\ Goto(c, "accepted")
  /\ link' = [link EXCEPT ![c] = TRUE]
  /\ closes' = [closes EXCEPT ![c] = 0]
  /\ UNCHANGED <<deployVars, outbox, clients, chan, wire, cuts, mounted, connected, progress>>

OnOpen ==
  /\ mounted /\ ws # NoConn /\ ~connected /\ link[ws]
  /\ connected' = TRUE
  /\ UNCHANGED <<hubVars, mounted, ws, timer, progress>>

OnMessage ==
  /\ mounted /\ connected /\ wire[ws] # <<>>
  /\ progress' = Taken(Head(wire[ws]))
  /\ wire' = [wire EXCEPT ![ws] = Tail(@)]
  /\ UNCHANGED <<deployVars, outbox, stage, clients, chan, closes, link, cuts,
                 mounted, ws, connected, timer>>

(* Variant: the page gives up after the first lost connection.             *)
OnCloseOnce ==
  /\ mounted /\ ws # NoConn
  /\ ~link[ws] \/ (stage[ws] = "gone" /\ wire[ws] = <<>>)
  /\ ws' = NoConn /\ connected' = FALSE /\ timer' = ~connected
  /\ UNCHANGED <<hubVars, mounted, progress>>

(* What the network still carries from a closed server arrives first.      *)
OnClose ==
  /\ mounted /\ ws # NoConn
  /\ ~link[ws] \/ (stage[ws] = "gone" /\ wire[ws] = <<>>)
  /\ ws' = NoConn /\ connected' = FALSE /\ timer' = TRUE
  /\ UNCHANGED <<hubVars, mounted, progress>>

(* The effect's cleanup; what arrives later is ignored.                    *)
Unmount ==
  /\ mounted
  /\ mounted' = FALSE /\ timer' = FALSE /\ ws' = NoConn /\ connected' = FALSE
  /\ IF ws = NoConn THEN UNCHANGED <<link, wire>>
     ELSE /\ link' = [link EXCEPT ![ws] = FALSE]
          /\ wire' = [wire EXCEPT ![ws] = <<>>]
  /\ UNCHANGED <<deployVars, outbox, stage, clients, chan, closes, cuts, progress>>

-----------------------------------------------------------------------------

Deploys ==
  \/ \E a \in Apps : \/ \E j \in JobIds : StartDeploy(a, j)
                     \/ Update(a) \/ Stop(a)
                     \/ \E phase \in {"succeeded", "failed"} : End(a, phase)
  \/ Cleanup
  \/ \E j \in JobIds : RequestCancel(j)

Session(c) ==
  \/ Serve(c) \/ Forward(c) \/ SeeClosed(c) \/ NoticeLoss(c)
  \/ RemoveClient(c) \/ Leave(c)

Faults(c) == Cut(c) \/ WriteTimesOut(c)

Page == (\E c \in Conns : Connect(c)) \/ OnOpen \/ OnMessage \/ OnClose

Next ==
  \/ Deploys /\ UNCHANGED pageVars
  \/ (\E g \in Goroutines : Broadcast(g)) /\ UNCHANGED pageVars
  \/ \E c \in Conns : (Session(c) \/ Faults(c)) /\ UNCHANGED pageVars
  \/ Page
  \/ Unmount

(* Goroutines and the page's event loop run when they can, and a scheduled *)
(* call of connect is made.  Deploys, faults and the user are free.        *)
Spec ==
  /\ Init /\ [][Next]_vars
  /\ \A g \in Goroutines : WF_vars(Broadcast(g) /\ UNCHANGED pageVars)
  /\ \A c \in Conns : WF_vars(Session(c) /\ UNCHANGED pageVars)
  /\ WF_vars(Page)

-----------------------------------------------------------------------------

TypeOK ==
  /\ entries \in [Apps -> Entry \cup {NoEntry}]
  /\ working \in [Apps -> JobIds \cup {NoJob}]
  /\ unused \subseteq JobIds /\ asked \subseteq JobIds
  /\ outbox \in [Goroutines -> Seq(Events)]
  /\ stage \in [Conns -> Stages] /\ clients \subseteq Conns
  /\ chan \in [Conns -> Seq(Events)] /\ wire \in [Conns -> Seq(Frames)]
  /\ closes \in [Conns -> Nat] /\ link \in [Conns -> BOOLEAN] /\ cuts \in 0 .. MaxCuts
  /\ {mounted, connected, timer} \subseteq BOOLEAN /\ ws \in Conns \cup {NoConn}
  /\ progress \in [JobIds -> Shown \cup {NoEntry}]

(***************************************************************************)
(* No goroutine sends on a closed channel or closes one twice, which would *)
(* end the process: a client in the map has an open channel, and eviction  *)
(* and the connection's own departure close it once between them.          *)
(***************************************************************************)
NoPanic == /\ \A c \in Conns : closes[c] <= 1
           /\ \A c \in clients : closes[c] = 0

(***************************************************************************)
(* When everything on its way has arrived, the badge says what the tracker *)
(* holds.  A page that joins in the middle of a deploy, or again after its *)
(* connection was lost, misses nothing between its snapshot and its first  *)
(* event, although what it is shown meanwhile may be older.                *)
(***************************************************************************)
Streaming(c) == stage[c] = "streaming" /\ link[c] /\ c \in clients
Drained(c) == chan[c] = <<>> /\ wire[c] = <<>>
Shows(e) ==
  LET shown == progress[e.job]
  IN  shown # NoEntry /\ CurrentActivity(shown) = e.phase /\ shown.done = e.done
Agrees(a) == entries[a] # NoEntry => Shows(entries[a])
CaughtUp ==
  connected /\ Streaming(ws) /\ Drained(ws) =>
    \A a \in Apps : outbox[a] = <<>> => Agrees(a)

(***************************************************************************)
(* When failures cease, the page is connected in the end and shows the     *)
(* state of every deploy: a page that was too slow and was dropped, or cut *)
(* off, comes back by itself.                                              *)
(***************************************************************************)
PageCatchesUp ==
  <>[](mounted => connected /\ \A a \in Apps : Agrees(a))

(***************************************************************************)
(* The hub forgets a page that is gone, also when nothing is being         *)
(* deployed and no event is written to it.                                 *)
(***************************************************************************)
HubForgets == [](~mounted => <>(clients = {}))

(***************************************************************************)
(* AdminEventProvider.test.tsx:269-280 and the comment of                  *)
(* AdminEventProvider.tsx:154: a cancel_requested event of a job the page  *)
(* shows turns the job's status into "cancel_requested".                   *)
(***************************************************************************)
CancelIsShown ==
  [][\A j \in JobIds :
       (/\ mounted /\ connected /\ wire[ws] # <<>> /\ progress[j] # NoEntry
        /\ Head(wire[ws]).kind = "cancel_requested" /\ Head(wire[ws]).job = j
        /\ wire'[ws] = Tail(wire[ws]) /\ mounted')
         => progress'[j].status = "cancel_requested"]_vars

=============================================================================
