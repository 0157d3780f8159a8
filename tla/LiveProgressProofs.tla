------------------------- MODULE LiveProgressProofs -------------------------
(***************************************************************************)
(* The hub's clients and their channels, and what the page is told, for    *)
(* any number of connections, applications and jobs and any size of the    *)
(* channels.                                                               *)
(***************************************************************************)
EXTENDS LiveProgress, TLAPS

(* A client is in the map between AddClient and RemoveClient, unless it is *)
(* evicted; its channel is closed by the eviction or after RemoveClient.   *)
ClientIsOpen(c) ==
  /\ c \in clients => stage[c] \in {"added", "streaming", "leaving"} /\ closes[c] = 0
  /\ stage[c] = "accepted" => closes[c] = 0

ClientsInv ==
  /\ stage \in [Conns -> Stages] /\ clients \subseteq Conns /\ closes \in [Conns -> {0, 1}]
  /\ \A c \in Conns : ClientIsOpen(c)

LEMMA ClientsStep == ClientsInv /\ [Next]_vars => ClientsInv'
<1> SUFFICES ASSUME ClientsInv, [Next]_vars PROVE ClientsInv'
  OBVIOUS
<1> USE DEF ClientsInv, ClientIsOpen, Stages
<1>1. CASE UNCHANGED <<stage, clients, closes>>
  BY <1>1
<1>2. CASE Deploys
  BY <1>1, <1>2 DEF Deploys, StartDeploy, Update, Stop, End, Cleanup, RequestCancel, connVars
<1>3. ASSUME NEW g \in Goroutines, Broadcast(g) PROVE ClientsInv'
  BY <1>3 DEF Broadcast, Close
<1>4. ASSUME NEW c \in Conns, Serve(c) PROVE ClientsInv'
  BY <1>4 DEF Serve, AddClient, WriteInitial, Goto
<1>5. ASSUME NEW c \in Conns, Forward(c) \/ Cut(c) PROVE ClientsInv'
  BY <1>1, <1>5 DEF Forward, Cut
<1>6. ASSUME NEW c \in Conns, SeeClosed(c) \/ NoticeLoss(c) \/ WriteTimesOut(c) PROVE ClientsInv'
  BY <1>6 DEF SeeClosed, NoticeLoss, WriteTimesOut, Goto
<1>7. ASSUME NEW c \in Conns, RemoveClient(c) PROVE ClientsInv'
  BY <1>7 DEF RemoveClient, Goto
<1>8. ASSUME NEW c \in Conns, Leave(c) PROVE ClientsInv'
  BY <1>8 DEF Leave, Close, Goto
<1>9. ASSUME NEW c \in Conns, Connect(c) PROVE ClientsInv'
  BY <1>9 DEF Connect, Goto
<1>10. CASE OnOpen \/ OnMessage \/ OnClose \/ Unmount
  BY <1>1, <1>10 DEF OnOpen, OnMessage, OnClose, Unmount, hubVars, connVars
<1>11. CASE UNCHANGED vars
  BY <1>1, <1>11 DEF vars, hubVars, connVars
<1> QED BY <1>2, <1>3, <1>4, <1>5, <1>6, <1>7, <1>8, <1>9, <1>10, <1>11 DEF Next, Session, Faults, Page

(* No goroutine sends on a closed channel or closes one twice: eviction    *)
(* and departure race on any number of connections, and no order of theirs *)
(* ends the process.                                                       *)
THEOREM NeverPanics == Spec => []NoPanic
<1>1. Init => ClientsInv
  BY DEF Init, ClientsInv, ClientIsOpen, Stages
<1>2. ClientsInv => NoPanic
  BY DEF ClientsInv, ClientIsOpen, NoPanic
<1> QED BY <1>1, <1>2, ClientsStep, PTL DEF Spec

-----------------------------------------------------------------------------

(* What a goroutine has yet to broadcast.  The goroutine of an application *)
(* holds one frame at most: if it is of progress, it is of the entry as it *)
(* is, unless Cleanup has removed the entry, and no other application has  *)
(* an entry of its job.                                                    *)
OneEach(E) ==
  \A a, b \in Apps : E[a] # NoEntry /\ E[b] # NoEntry /\ E[a].job = E[b].job => a = b
Carries(a, f) ==
  f.kind = "p" =>
    /\ f.entry.job \notin unused
    /\ entries[a] \in {f.entry, NoEntry}
    /\ \A b \in Apps \ {a} : entries[b] # NoEntry => entries[b].job # f.entry.job

WorkInv ==
  \A a \in Apps : working[a] # NoJob =>
    entries[a] # NoEntry /\ entries[a].job = working[a] /\ entries[a].phase = "working"
ConnectedInv == connected => ws # NoConn
TypeInv == TypeOK /\ WorkInv /\ ConnectedInv

TrackerInv ==
  /\ \A a \in Apps :
       /\ entries[a] # NoEntry => entries[a].job \notin unused
       /\ outbox[a] = <<>> \/ \E f \in Events : outbox[a] = <<f>> /\ Carries(a, f)
  /\ \A k \in DOMAIN outbox[Operator] : outbox[Operator][k].kind # "p"
  /\ OneEach(entries)

LEMMA FrameTypes ==
  /\ \A e \in Entry : ProgressFrame(e) \in Events
  /\ HubAssumption => \A j \in JobIds : CancelFrame(j) \in Events /\ StatusFrame(j) \in Events
  /\ TypeOK => SnapshotFrame \in Snapshots
  BY DEF ProgressFrame, CancelFrame, StatusFrame, SnapshotFrame, Events, Snapshots, TypeOK

LEMMA NothingSent ==
  ASSUME TypeOK, NEW c, wire' = [wire EXCEPT ![c] = <<>>]
  PROVE  wire' \in [Conns -> Seq(Frames)]
<1>1. <<>> \in Seq(Frames)
  OBVIOUS
<1> QED BY <1>1 DEF TypeOK

LEMMA EntryIsReal == NoEntry \notin Entry /\ NoEntry \notin Shown /\ NoJob \notin JobIds
  BY HubAssumption, PageAssumption DEF Entry, Phases

(* A deploy goroutine's step leaves typed entries and one typed frame.     *)
LEMMA SetsType ==
  ASSUME TypeOK, NEW a \in Apps, NEW e \in Entry, Sets(a, e)
  PROVE  entries' \in [Apps -> Entry \cup {NoEntry}] /\ outbox' \in [Goroutines -> Seq(Events)]
<1>1. ProgressFrame(e) \in Events
  BY FrameTypes
<1> QED BY <1>1 DEF TypeOK, Sets, Goroutines

DeployTypes ==
  /\ entries' \in [Apps -> Entry \cup {NoEntry}]
  /\ working' \in [Apps -> JobIds \cup {NoJob}]
  /\ unused' \subseteq JobIds /\ asked' \subseteq JobIds
  /\ outbox' \in [Goroutines -> Seq(Events)]
  /\ WorkInv'
  /\ UNCHANGED connVars

LEMMA DeploysType ==
  ASSUME TypeOK, WorkInv, Deploys
  PROVE  DeployTypes
<1> USE HubAssumption
<1>1. ASSUME NEW a \in Apps, NEW j \in JobIds, StartDeploy(a, j) PROVE DeployTypes
  <2>1. [job |-> j, phase |-> "working", done |-> 0] \in Entry
    BY DEF Entry, Phases
  <2> QED BY <1>1, <2>1, SetsType, EntryIsReal DEF StartDeploy, DeployTypes, TypeOK, WorkInv, Sets
<1>2. ASSUME NEW a \in Apps, Update(a) PROVE DeployTypes
  <2>1. entries[a] \in Entry /\ entries[a].done < Chunks
    BY <1>2 DEF Update, WorkInv, TypeOK
  <2>2. [entries[a] EXCEPT !.done = @ + 1] \in Entry
    BY <2>1 DEF Entry
  <2> QED BY <1>2, <2>1, <2>2, SetsType, EntryIsReal DEF Update, DeployTypes, TypeOK, WorkInv, Sets, Entry
<1>3. ASSUME NEW a \in Apps, NEW phase \in {"succeeded", "failed"}, End(a, phase) PROVE DeployTypes
  <2>1. entries[a] \in Entry
    BY <1>3 DEF End, WorkInv, TypeOK
  <2>2. [entries[a] EXCEPT !.phase = phase] \in Entry
    BY <2>1 DEF Entry, Phases
  <2> QED BY <1>3, <2>2, SetsType DEF End, DeployTypes, TypeOK, WorkInv, Sets
<1>4. ASSUME NEW a \in Apps, Stop(a) PROVE DeployTypes
  <2>1. StatusFrame(working[a]) \in Events
    BY <1>4, FrameTypes DEF Stop, TypeOK
  <2> QED BY <1>4, <2>1 DEF Stop, DeployTypes, TypeOK, WorkInv, Goroutines
<1>5. CASE Cleanup
  BY <1>5 DEF Cleanup, Finished, DeployTypes, TypeOK, WorkInv
<1>6. ASSUME NEW j \in JobIds, RequestCancel(j) PROVE DeployTypes
  <2>1. <<CancelFrame(j)>> \in Seq(Events) /\ <<CancelFrame(j), StatusFrame(j)>> \in Seq(Events)
    BY FrameTypes
  <2>2. outbox' \in [Goroutines -> Seq(Events)]
    BY <1>6, <2>1 DEF RequestCancel, TypeOK, Goroutines
  <2> QED BY <1>6, <2>2 DEF RequestCancel, DeployTypes, TypeOK, WorkInv
<1> QED BY <1>1, <1>2, <1>3, <1>4, <1>5, <1>6 DEF Deploys

LEMMA TakenType ==
  ASSUME TypeOK, NEW f \in Frames
  PROVE  Taken(f) \in [JobIds -> Shown \cup {NoEntry}]
<1>1. \A e \in Entry : /\ ShownAs(e, e.phase) \in Shown
                       /\ ShownAs(e, StatusForStage(e.phase)) \in Shown
  BY DEF ShownAs, Shown, StatusForStage, Entry, Phases
<1>2. CASE f.kind = "p"
  <2>1. f.entry \in Entry
    BY <1>2 DEF Frames, Events, Snapshots
  <2> QED BY <1>1, <1>2, <2>1 DEF Taken, TakeProgress, TypeOK, Entry
<1>3. CASE f.kind = "snapshot"
  <2>1. f.entries \in [Apps -> Entry \cup {NoEntry}]
    BY <1>3 DEF Frames, Events, Snapshots
  <2>2. ASSUME NEW j \in JobIds PROVE TakeSnapshot(f)[j] \in Shown \cup {NoEntry}
    <3> DEFINE listed == {a \in Apps : f.entries[a] # NoEntry}
               b == CHOOSE a \in listed : f.entries[a].job = j
    <3>1. CASE \E a \in listed : f.entries[a].job = j
      <4>1. b \in listed
        BY <3>1
      <4>2. f.entries[b] \in Entry
        BY <2>1, <4>1
      <4> HIDE DEF b
      <4> QED BY <1>1, <3>1, <4>2 DEF TakeSnapshot, b
    <3>2. CASE ~ \E a \in listed : f.entries[a].job = j
      BY <3>2 DEF TakeSnapshot, TypeOK
    <3> QED BY <3>1, <3>2
  <2>3. TakeSnapshot(f) = [j \in JobIds |-> TakeSnapshot(f)[j]]
    BY DEF TakeSnapshot
  <2> QED BY <1>3, <2>2, <2>3 DEF Taken
<1>4. CASE f.kind \notin {"p", "snapshot"}
  <2>1. f.payloadJob = NoJob
    BY <1>4 DEF Frames, Events, Snapshots
  <2> QED BY <1>4, <2>1 DEF Taken, TakeStatus, TypeOK
<1> QED BY <1>2, <1>3, <1>4

(* Type correctness.  That a report finds the entry it changes is part of  *)
(* it: Cleanup removes no entry of a deploy that goes on.                  *)
LEMMA TypeStep == TypeInv /\ [Next]_vars => TypeInv'
<1> SUFFICES ASSUME TypeOK, WorkInv, ConnectedInv, [Next]_vars PROVE TypeInv'
  BY DEF TypeInv
<1> USE DEF TypeInv, ConnectedInv
<1>1. CASE Deploys /\ UNCHANGED pageVars
  BY <1>1, DeploysType DEF DeployTypes, TypeOK, connVars, pageVars
<1>2. ASSUME NEW g \in Goroutines, Broadcast(g), UNCHANGED pageVars PROVE TypeInv'
  <2>1. outbox' \in [Goroutines -> Seq(Events)] /\ Head(outbox[g]) \in Events
    BY <1>2 DEF Broadcast, TypeOK
  <2>2. chan' \in [Conns -> Seq(Events)]
    BY <1>2, <2>1 DEF Broadcast, TypeOK
  <2> QED BY <1>2, <2>1, <2>2 DEF Broadcast, Close, TypeOK, WorkInv, deployVars, pageVars
<1>3. ASSUME NEW c \in Conns, Session(c) \/ Faults(c), UNCHANGED pageVars PROVE TypeInv'
  <2>1. CASE AddClient(c) \/ SeeClosed(c) \/ NoticeLoss(c) \/ RemoveClient(c)
    BY <1>3, <2>1 DEF AddClient, SeeClosed, NoticeLoss, RemoveClient, Goto, TypeOK, Stages, WorkInv,
                      deployVars, pageVars
  <2>2. CASE WriteInitial(c)
    <3>1. SnapshotFrame \in Frames
      BY FrameTypes DEF Frames
    <3> QED BY <1>3, <2>2, <3>1 DEF WriteInitial, Goto, TypeOK, Stages, WorkInv, deployVars, pageVars
  <2>3. CASE Forward(c)
    <3>1. Head(chan[c]) \in Frames /\ Tail(chan[c]) \in Seq(Events)
      BY <2>3 DEF Forward, TypeOK, Frames
    <3> QED BY <1>3, <2>3, <3>1 DEF Forward, TypeOK, WorkInv, deployVars, pageVars
  <2>4. CASE Leave(c)
    BY <1>3, <2>4 DEF Leave, Close, Goto, TypeOK, Stages, WorkInv, deployVars, pageVars
  <2>5. CASE Cut(c) \/ WriteTimesOut(c)
    <3>1. cuts' \in 0 .. MaxCuts
      BY <2>5, HubAssumption DEF Cut, WriteTimesOut, TypeOK
    <3>2. stage' \in [Conns -> Stages]
      BY <2>5 DEF Cut, WriteTimesOut, Goto, TypeOK, Stages
    <3>3. wire' \in [Conns -> Seq(Frames)]
      <4>1. CASE Cut(c)
        BY <4>1, NothingSent DEF Cut
      <4>2. CASE WriteTimesOut(c)
        BY <4>2 DEF WriteTimesOut, TypeOK
      <4> QED BY <2>5, <4>1, <4>2
    <3> QED BY <1>3, <2>5, <3>1, <3>2, <3>3 DEF Cut, WriteTimesOut, TypeOK, WorkInv, deployVars, pageVars
  <2> QED BY <1>3, <2>1, <2>2, <2>3, <2>4, <2>5 DEF Session, Serve, Faults
<1>4. ASSUME NEW c \in Conns, Connect(c) PROVE TypeInv'
  BY <1>4, PageAssumption DEF Connect, Goto, TypeOK, Stages, WorkInv, deployVars
<1>5. CASE OnMessage
  <2>1. ws \in Conns /\ Head(wire[ws]) \in Frames /\ Tail(wire[ws]) \in Seq(Frames)
    <3>1. ws \in Conns
      BY <1>5 DEF OnMessage, TypeOK
    <3> QED BY <1>5, <3>1 DEF OnMessage, TypeOK
  <2>2. progress' \in [JobIds -> Shown \cup {NoEntry}]
    BY <1>5, <2>1, TakenType DEF OnMessage
  <2> QED BY <1>5, <2>1, <2>2 DEF OnMessage, TypeOK, WorkInv, deployVars
<1>6. CASE OnOpen \/ OnClose
  BY <1>6 DEF OnOpen, OnClose, TypeOK, WorkInv, hubVars, deployVars, connVars
<1>7. CASE Unmount
  <2>1. link' \in [Conns -> BOOLEAN] /\ wire' \in [Conns -> Seq(Frames)]
    <3>1. CASE ws = NoConn
      BY <1>7, <3>1 DEF Unmount, TypeOK
    <3>2. CASE ws # NoConn
      <4>1. wire' \in [Conns -> Seq(Frames)]
        BY <1>7, <3>2, NothingSent DEF Unmount
      <4> QED BY <1>7, <3>2, <4>1 DEF Unmount, TypeOK
    <3> QED BY <3>1, <3>2
  <2>2. {mounted', connected', timer'} \subseteq BOOLEAN /\ ~connected'
    BY <1>7 DEF Unmount
  <2> QED BY <1>7, <2>1, <2>2 DEF Unmount, TypeOK, WorkInv, deployVars
<1>8. CASE UNCHANGED vars
  BY <1>8 DEF vars, hubVars, deployVars, connVars, pageVars, TypeOK, WorkInv
<1> QED BY <1>1, <1>2, <1>3, <1>4, <1>5, <1>6, <1>7, <1>8 DEF Next, Page

LEMMA LiveInit == Init => TypeInv
<1> SUFFICES ASSUME Init PROVE TypeInv
  OBVIOUS
<1>1. cuts \in 0 .. MaxCuts /\ \A a \in Apps : working[a] = NoJob
  BY HubAssumption DEF Init
<1>2. /\ outbox \in [Goroutines -> Seq(Events)]
      /\ chan \in [Conns -> Seq(Events)] /\ wire \in [Conns -> Seq(Frames)]
  BY DEF Init
<1>3. {mounted, connected, timer} \subseteq BOOLEAN /\ ~connected
  BY DEF Init
<1> QED BY <1>1, <1>2, <1>3 DEF Init, TypeInv, TypeOK, WorkInv, ConnectedInv, Stages

(* Type correctness: no report, event or snapshot is ever of another shape, *)
(* and the page never keeps an item without a status it knows.              *)
THEOREM LiveTypeCorrect == Spec => []TypeOK
<1>1. TypeInv => TypeOK
  BY DEF TypeInv
<1> QED BY <1>1, LiveInit, TypeStep, PTL DEF Spec

-----------------------------------------------------------------------------

(* The tracker's goroutines, step by step.                                 *)
LEMMA OneFrame ==
  ASSUME NEW f, NEW s, s = Append(<<>>, f)
  PROVE  s = <<f>> /\ s # <<>> /\ Head(s) = f
  OBVIOUS

LEMMA DeploysTracker ==
  ASSUME TypeInv, TrackerInv, Deploys
  PROVE  TrackerInv'
<1> USE HubAssumption DEF TypeInv
<1>1. ASSUME NEW a \in Apps, NEW e \in Entry, Sets(a, e), outbox[a] = <<>>, e.job \notin unused',
             unused' \subseteq unused,
             e.job \in unused \/ (entries[a] # NoEntry /\ entries[a].job = e.job),
             \A b \in Apps \ {a} : entries[b] # NoEntry => entries[b].job # e.job
      PROVE  TrackerInv'
  <2>1. outbox'[a] = <<ProgressFrame(e)>> /\ \A g \in Goroutines \ {a} : outbox'[g] = outbox[g]
    BY <1>1 DEF Sets, TypeOK, Goroutines
  <2>2. entries'[a] = e /\ \A b \in Apps \ {a} : entries'[b] = entries[b]
    BY <1>1 DEF Sets, TypeOK
  <2>3. OneEach(entries')
    BY <1>1, <2>2, EntryIsReal DEF TrackerInv, OneEach
  <2>4. ASSUME NEW b \in Apps
        PROVE  /\ entries'[b] # NoEntry => entries'[b].job \notin unused'
               /\ outbox'[b] = <<>> \/ \E f \in Events : outbox'[b] = <<f>> /\ Carries(b, f)'
    <3>1. CASE b = a
      <4>1. ProgressFrame(e) \in Events /\ Carries(a, ProgressFrame(e))'
        BY <1>1, <2>2, FrameTypes DEF Carries, ProgressFrame
      <4> QED BY <1>1, <2>1, <2>2, <3>1, <4>1
    <3>2. CASE b # a
      <4>1. ASSUME NEW f \in Events, outbox[b] = <<f>>, Carries(b, f) PROVE Carries(b, f)'
        BY <1>1, <2>2, <3>2, <4>1, EntryIsReal DEF Carries
      <4> QED BY <1>1, <2>1, <2>2, <3>2, <4>1 DEF TrackerInv, Goroutines
    <3> QED BY <3>1, <3>2
  <2> QED BY <2>1, <2>3, <2>4 DEF TrackerInv, Goroutines
<1>2. ASSUME NEW a \in Apps, NEW j \in JobIds, StartDeploy(a, j) PROVE TrackerInv'
  <2> DEFINE e == [job |-> j, phase |-> "working", done |-> 0]
  <2>1. e \in Entry
    BY DEF Entry, Phases
  <2> QED BY <1>1, <1>2, <2>1 DEF StartDeploy, TrackerInv
<1>3. ASSUME NEW a \in Apps, NEW e \in Entry, Sets(a, e), outbox[a] = <<>>, working[a] # NoJob,
             e.job = entries[a].job, UNCHANGED unused
      PROVE  TrackerInv'
  <2>1. \A b \in Apps \ {a} : entries[b] # NoEntry => entries[b].job # e.job
    BY <1>3 DEF WorkInv, TrackerInv, OneEach
  <2>2. e.job \notin unused
    BY <1>3 DEF WorkInv, TrackerInv
  <2> QED BY <1>1, <1>3, <2>1, <2>2 DEF WorkInv
<1>4. ASSUME NEW a \in Apps, Update(a) PROVE TrackerInv'
  <2>1. entries[a] \in Entry /\ entries[a].done < Chunks
    BY <1>4 DEF Update, WorkInv, TypeOK
  <2> DEFINE e == [entries[a] EXCEPT !.done = @ + 1]
  <2>2. e \in Entry /\ e.job = entries[a].job
    BY <2>1 DEF Entry
  <2> QED BY <1>3, <1>4, <2>2 DEF Update
<1>5. ASSUME NEW a \in Apps, NEW phase \in {"succeeded", "failed"}, End(a, phase) PROVE TrackerInv'
  <2>1. entries[a] \in Entry
    BY <1>5 DEF End, WorkInv, TypeOK
  <2> DEFINE e == [entries[a] EXCEPT !.phase = phase]
  <2>2. e \in Entry /\ e.job = entries[a].job
    BY <2>1 DEF Entry, Phases
  <2> QED BY <1>3, <1>5, <2>2 DEF End
<1>6. ASSUME NEW a \in Apps, Stop(a) PROVE TrackerInv'
  <2>1. StatusFrame(working[a]) \in Events /\ StatusFrame(working[a]).kind # "p"
    BY <1>6, FrameTypes DEF Stop, TypeOK, StatusFrame
  <2>2. /\ outbox'[a] = <<StatusFrame(working[a])>>
        /\ \A g \in Goroutines \ {a} : outbox'[g] = outbox[g]
    BY <1>6, OneFrame DEF Stop, TypeOK, Goroutines
  <2>3. Carries(a, StatusFrame(working[a]))'
    BY <2>1 DEF Carries, StatusFrame
  <2> QED BY <1>6, <2>1, <2>2, <2>3 DEF Stop, TrackerInv, Carries, Goroutines
<1>7. CASE Cleanup
  <2>1. /\ \A b \in Apps : entries'[b] \in {entries[b], NoEntry}
        /\ UNCHANGED <<unused, outbox>>
    BY <1>7 DEF Cleanup
  <2>2. \A b \in Apps, f \in Events : Carries(b, f) => Carries(b, f)'
    BY <2>1 DEF Carries
  <2> QED BY <2>1, <2>2 DEF TrackerInv, OneEach
<1>8. ASSUME NEW j \in JobIds, RequestCancel(j) PROVE TrackerInv'
  <2>1. /\ unused' \subseteq unused /\ UNCHANGED entries
        /\ \A a \in Apps : outbox'[a] = outbox[a]
    BY <1>8 DEF RequestCancel, TypeOK, Goroutines
  <2>2. outbox'[Operator] \in {<<CancelFrame(j)>>, <<CancelFrame(j), StatusFrame(j)>>}
    BY <1>8 DEF RequestCancel, TypeOK, Goroutines
  <2>3. \A k \in DOMAIN outbox'[Operator] : outbox'[Operator][k].kind # "p"
    BY <2>2 DEF CancelFrame, StatusFrame
  <2>4. \A b \in Apps, f \in Events : Carries(b, f) => Carries(b, f)'
    BY <2>1 DEF Carries
  <2> QED BY <2>1, <2>3, <2>4 DEF TrackerInv, OneEach
<1> QED BY <1>2, <1>4, <1>5, <1>6, <1>7, <1>8 DEF Deploys

LEMMA BroadcastTracker ==
  ASSUME TypeInv, TrackerInv, NEW g \in Goroutines, Broadcast(g)
  PROVE  TrackerInv'
<1> USE HubAssumption DEF TypeInv
<1>1. /\ outbox'[g] = Tail(outbox[g]) /\ UNCHANGED <<entries, unused>>
      /\ \A h \in Goroutines \ {g} : outbox'[h] = outbox[h]
  BY DEF Broadcast, TypeOK, deployVars
<1>2. \A b \in Apps, f \in Events : Carries(b, f) => Carries(b, f)'
  BY <1>1 DEF Carries
<1>3. ASSUME NEW a \in Apps
      PROVE  outbox'[a] = <<>> \/ \E f \in Events : outbox'[a] = <<f>> /\ Carries(a, f)'
  <2>1. CASE a = g
    <3>1. PICK f \in Events : outbox[a] = <<f>>
      BY <2>1 DEF Broadcast, TrackerInv
    <3> QED BY <1>1, <2>1, <3>1
  <2>2. CASE a # g
    BY <1>1, <1>2, <2>2 DEF TrackerInv, Goroutines
  <2> QED BY <2>1, <2>2
<1>4. \A k \in DOMAIN outbox'[Operator] : outbox'[Operator][k].kind # "p"
  <2>1. CASE g = Operator
    <3>1. /\ outbox[g] \in Seq(Events) /\ outbox[g] # <<>>
      BY DEF Broadcast, TypeOK
    <3>2. \A k \in DOMAIN Tail(outbox[g]) : k + 1 \in DOMAIN outbox[g] /\ Tail(outbox[g])[k] = outbox[g][k + 1]
      BY <3>1
    <3>3. \A k \in DOMAIN outbox[g] : outbox[g][k].kind # "p"
      BY <2>1 DEF TrackerInv
    <3>4. \A k \in DOMAIN Tail(outbox[g]) : Tail(outbox[g])[k].kind # "p"
      BY <3>2, <3>3
    <3> QED BY <1>1, <2>1, <3>4
  <2>2. CASE g # Operator
    BY <1>1, <2>2 DEF TrackerInv, Goroutines
  <2> QED BY <2>1, <2>2
<1> QED BY <1>1, <1>3, <1>4 DEF TrackerInv, OneEach

LEMMA TrackerStep == TypeInv /\ TrackerInv /\ [Next]_vars => TrackerInv'
<1> SUFFICES ASSUME TypeInv, TrackerInv, [Next]_vars PROVE TrackerInv'
  OBVIOUS
<1>1. CASE UNCHANGED <<entries, unused, outbox>>
  BY <1>1 DEF TrackerInv, Carries, OneEach
<1>2. ASSUME NEW c \in Conns, Session(c) \/ Faults(c) PROVE TrackerInv'
  BY <1>1, <1>2 DEF Session, Serve, AddClient, WriteInitial, Forward, SeeClosed, NoticeLoss,
                    RemoveClient, Leave, Faults, Cut, WriteTimesOut, deployVars
<1>3. CASE Page \/ Unmount
  BY <1>1, <1>3 DEF Page, Connect, OnOpen, OnMessage, OnClose, Unmount, hubVars, deployVars
<1>4. CASE UNCHANGED vars
  BY <1>1, <1>4 DEF vars, hubVars, deployVars
<1> QED BY <1>2, <1>3, <1>4, DeploysTracker, BroadcastTracker DEF Next

-----------------------------------------------------------------------------

(* What frames on their way say of an entry: the last of them that is      *)
(* about its job says the entry, or none of them is about its job.         *)
About(f, j) ==
  \/ f.kind = "p" /\ f.entry.job = j
  \/ f.kind = "snapshot" /\ \E a \in Apps : f.entries[a] # NoEntry /\ f.entries[a].job = j
Says(f, e) ==
  \/ f.kind = "p" /\ f.entry = e
  \/ f.kind = "snapshot" /\ OneEach(f.entries) /\ \E a \in Apps : f.entries[a] = e
Silent(s, j) == \A k \in DOMAIN s : ~About(s[k], j)
Tells(s, e) ==
  \E k \in DOMAIN s : Says(s[k], e) /\ \A m \in DOMAIN s : m > k => ~About(s[m], e.job)

LEMMA AppendShape ==
  ASSUME NEW S, NEW s \in Seq(S), NEW f
  PROVE  /\ DOMAIN Append(s, f) = DOMAIN s \cup {Len(s) + 1}
         /\ \A k \in DOMAIN s : Append(s, f)[k] = s[k] /\ k \in Nat /\ k < Len(s) + 1
         /\ Append(s, f)[Len(s) + 1] = f /\ Len(s) \in Nat
  OBVIOUS

LEMMA TailShape ==
  ASSUME NEW S, NEW s \in Seq(S), s # <<>>
  PROVE  /\ \A k \in DOMAIN Tail(s) : k + 1 \in DOMAIN s /\ Tail(s)[k] = s[k + 1]
         /\ \A k \in DOMAIN s : k \in Nat /\ (k = 1 \/ (k - 1 \in DOMAIN Tail(s) /\ Tail(s)[k - 1] = s[k]))
         /\ DOMAIN Tail(s) \subseteq Nat
         /\ 1 \in DOMAIN s /\ Head(s) = s[1]
  OBVIOUS

(* A frame that says the entry makes the queue tell it.                    *)
LEMMA AppendSays ==
  ASSUME NEW S, NEW s \in Seq(S), NEW f, NEW e, Says(f, e)
  PROVE  Tells(Append(s, f), e)
<1>1. \A m \in DOMAIN Append(s, f) : ~(m > Len(s) + 1)
  BY AppendShape
<1> QED BY <1>1, AppendShape DEF Tells

(* A frame about another job changes nothing of what the queue says.       *)
LEMMA AppendElse ==
  ASSUME NEW S, NEW s \in Seq(S), NEW f, NEW j, ~About(f, j)
  PROVE  /\ Silent(s, j) => Silent(Append(s, f), j)
         /\ \A e : e.job = j /\ Tells(s, e) => Tells(Append(s, f), e)
<1>1. Silent(s, j) => Silent(Append(s, f), j)
  BY AppendShape DEF Silent
<1>2. ASSUME NEW e, e.job = j, Tells(s, e) PROVE Tells(Append(s, f), e)
  <2>1. PICK k \in DOMAIN s : Says(s[k], e) /\ \A m \in DOMAIN s : m > k => ~About(s[m], e.job)
    BY <1>2 DEF Tells
  <2>2. k \in DOMAIN Append(s, f) /\ Says(Append(s, f)[k], e)
    BY <2>1, AppendShape
  <2>3. \A m \in DOMAIN Append(s, f) : m > k => ~About(Append(s, f)[m], e.job)
    BY <1>2, <2>1, AppendShape
  <2> QED BY <2>2, <2>3 DEF Tells
<1> QED BY <1>1, <1>2

(* Taking the first frame off.                                             *)
LEMMA TailTells ==
  ASSUME NEW S, NEW s \in Seq(S), s # <<>>, NEW e
  PROVE  /\ Silent(s, e.job) => ~About(Head(s), e.job) /\ Silent(Tail(s), e.job)
         /\ Tells(s, e) => \/ Tells(Tail(s), e)
                           \/ Says(Head(s), e) /\ Silent(Tail(s), e.job)
<1>1. Silent(s, e.job) => ~About(Head(s), e.job) /\ Silent(Tail(s), e.job)
  BY TailShape DEF Silent
<1>2. ASSUME Tells(s, e), ~Tells(Tail(s), e)
      PROVE  Says(Head(s), e) /\ Silent(Tail(s), e.job)
  <2>1. PICK k \in DOMAIN s : Says(s[k], e) /\ \A m \in DOMAIN s : m > k => ~About(s[m], e.job)
    BY <1>2 DEF Tells
  <2>2. ASSUME k # 1 PROVE Tells(Tail(s), e)
    <3>1. k - 1 \in DOMAIN Tail(s) /\ Tail(s)[k - 1] = s[k]
      BY <2>2, TailShape
    <3>2. ASSUME NEW m \in DOMAIN Tail(s), m > k - 1 PROVE ~About(Tail(s)[m], e.job)
      <4>1. m + 1 \in DOMAIN s /\ Tail(s)[m] = s[m + 1] /\ m \in Nat /\ k \in Nat
        BY TailShape
      <4>2. m + 1 > k
        BY <3>2, <4>1
      <4> QED BY <2>1, <4>1, <4>2
    <3> QED BY <2>1, <3>1, <3>2 DEF Tells
  <2>3. k = 1
    BY <1>2, <2>2
  <2>4. ASSUME NEW m \in DOMAIN Tail(s) PROVE ~About(Tail(s)[m], e.job)
    <3>1. m + 1 \in DOMAIN s /\ Tail(s)[m] = s[m + 1] /\ m \in Nat
      BY TailShape
    <3>2. m + 1 > 1
      <4>1. m >= 1
        <5>1. Tail(s) \in Seq(S)
          OBVIOUS
        <5> QED BY <5>1
      <4> QED BY <3>1, <4>1
    <3> QED BY <2>1, <2>3, <3>1, <3>2
  <2> QED BY <2>1, <2>3, <2>4, TailShape DEF Silent
<1> QED BY <1>1, <1>2

(* What a frame does to the badge of the entry's job.                      *)
LEMMA TakenShows ==
  ASSUME TypeOK, NEW f \in Frames, NEW e \in Entry, Says(f, e)
  PROVE  Taken(f)[e.job] # NoEntry /\ CurrentActivity(Taken(f)[e.job]) = e.phase
         /\ Taken(f)[e.job].done = e.done
<1>1. /\ ShownAs(e, e.phase) \in Shown /\ ShownAs(e, StatusForStage(e.phase)) \in Shown
      /\ e.job \in JobIds
  BY DEF ShownAs, Shown, StatusForStage, Entry, Phases
<1>2. /\ CurrentActivity(ShownAs(e, e.phase)) = e.phase
      /\ CurrentActivity(ShownAs(e, StatusForStage(e.phase))) = e.phase
      /\ ShownAs(e, e.phase).done = e.done /\ ShownAs(e, StatusForStage(e.phase)).done = e.done
  BY DEF CurrentActivity, ShownAs, StatusForStage, TerminalStatuses, Entry, Phases
<1>3. CASE f.kind = "p"
  <2>1. Taken(f)[e.job] = ShownAs(e, StatusForStage(e.phase))
    BY <1>1, <1>3 DEF Says, Taken, TakeProgress, TypeOK
  <2> QED BY <1>1, <1>2, <2>1, EntryIsReal
<1>4. CASE f.kind = "snapshot"
  <2> DEFINE listed == {a \in Apps : f.entries[a] # NoEntry}
             b == CHOOSE a \in listed : f.entries[a].job = e.job
  <2>1. PICK a \in Apps : f.entries[a] = e
    BY <1>4 DEF Says
  <2>2. a \in listed /\ f.entries[a].job = e.job
    BY <2>1, EntryIsReal
  <2>3. b \in listed /\ f.entries[b].job = e.job
    BY <2>2
  <2>4. b = a
    BY <1>4, <2>2, <2>3 DEF Says, OneEach
  <2>5. Taken(f)[e.job] = ShownAs(e, e.phase)
    BY <1>1, <1>4, <2>1, <2>2, <2>4 DEF Taken, TakeSnapshot
  <2> QED BY <1>1, <1>2, <2>5, EntryIsReal
<1> QED BY <1>3, <1>4 DEF Says

LEMMA TakenElse ==
  ASSUME TypeOK, NEW f \in Frames, NEW j \in JobIds, ~About(f, j)
  PROVE  Taken(f)[j] = progress[j]
<1>1. CASE f.kind = "p"
  BY <1>1 DEF About, Taken, TakeProgress, TypeOK
<1>2. CASE f.kind = "snapshot"
  BY <1>2 DEF About, Taken, TakeSnapshot
<1>3. CASE f.kind \notin {"p", "snapshot"}
  <2>1. f.payloadJob = NoJob
    BY <1>3 DEF Frames, Events, Snapshots
  <2> QED BY <1>3, <2>1 DEF Taken, TakeStatus
<1> QED BY <1>1, <1>2, <1>3

-----------------------------------------------------------------------------

(* The page's connection, while the hub has it: what waits in the channel, *)
(* what the network carries, and what the page shows say of every entry    *)
(* what it is, the later of them first.  Only an entry whose goroutine has *)
(* yet to broadcast it may be said wrong.  Before the snapshot is written  *)
(* there is nothing to say about the network: the snapshot will be right.  *)
Live(c) == c \in clients /\ link[c] /\ stage[c] \in {"added", "streaming"}
Pending(a) == outbox[a] # <<>> /\ Head(outbox[a]).kind = "p"

Arriving(c, e) == Tells(wire[c], e) \/ (Silent(wire[c], e.job) /\ Shows(e))
Told(c, e) == \/ Tells(chan[c], e)
              \/ Silent(chan[c], e.job) /\ (stage[c] = "streaming" => Arriving(c, e))

EmptyInv == \A c \in Conns : stage[c] \in {"gone", "accepted"} => chan[c] = <<>>
ToldInv ==
  ws # NoConn /\ Live(ws) =>
    \A a \in Apps : entries[a] # NoEntry /\ ~Pending(a) => Told(ws, entries[a])

LiveInv == TypeInv /\ TrackerInv /\ ClientsInv /\ EmptyInv /\ ToldInv

LEMMA EmptyStep == TypeInv /\ ClientsInv /\ EmptyInv /\ [Next]_vars => EmptyInv'
<1> SUFFICES ASSUME TypeInv, ClientsInv, EmptyInv, [Next]_vars PROVE EmptyInv'
  OBVIOUS
<1> USE DEF TypeInv, TypeOK, EmptyInv
<1>1. CASE UNCHANGED <<stage, chan>>
  BY <1>1
<1>2. CASE Deploys
  BY <1>1, <1>2 DEF Deploys, StartDeploy, Update, Stop, End, Cleanup, RequestCancel, connVars
<1>3. ASSUME NEW g \in Goroutines, Broadcast(g) PROVE EmptyInv'
  BY <1>3 DEF Broadcast, ClientsInv, ClientIsOpen
<1>4. ASSUME NEW c \in Conns, Session(c) \/ Faults(c) PROVE EmptyInv'
  BY <1>4 DEF Session, Serve, AddClient, WriteInitial, Forward, SeeClosed, NoticeLoss, RemoveClient,
              Leave, Faults, Cut, WriteTimesOut, Goto
<1>5. CASE Page \/ Unmount
  BY <1>5 DEF Page, Connect, Goto, OnOpen, OnMessage, OnClose, Unmount, hubVars, connVars
<1>6. CASE UNCHANGED vars
  BY <1>1, <1>6 DEF vars, hubVars, connVars
<1> QED BY <1>2, <1>3, <1>4, <1>5, <1>6 DEF Next

(* A deploy's step either leaves an entry alone or has it pending.         *)
LEMMA DeploysPending ==
  ASSUME TypeInv, Deploys, NEW a \in Apps, entries'[a] # NoEntry, ~Pending(a)'
  PROVE  entries'[a] = entries[a] /\ ~Pending(a)
<1> USE HubAssumption DEF TypeInv
<1>1. ASSUME NEW b \in Apps, NEW e, Sets(b, e), outbox[b] = <<>>
      PROVE  entries'[a] = entries[a] /\ ~Pending(a)
  <2>1. outbox'[b] # <<>> /\ Head(outbox'[b]).kind = "p"
    <3>1. outbox'[b] = <<ProgressFrame(e)>>
      BY <1>1 DEF Sets, TypeOK, Goroutines
    <3> QED BY <3>1 DEF ProgressFrame
  <2>2. a # b
    BY <2>1 DEF Pending
  <2> QED BY <1>1, <2>2 DEF Sets, TypeOK, Goroutines, Pending
<1>2. ASSUME NEW b \in Apps, Stop(b) PROVE entries'[a] = entries[a] /\ ~Pending(a)
  BY <1>2 DEF Stop, Pending, TypeOK, Goroutines
<1>3. CASE Cleanup
  BY <1>3 DEF Cleanup, Pending
<1>4. ASSUME NEW j \in JobIds, RequestCancel(j) PROVE entries'[a] = entries[a] /\ ~Pending(a)
  BY <1>4 DEF RequestCancel, Pending, TypeOK, Goroutines
<1> QED BY <1>1, <1>2, <1>3, <1>4 DEF Deploys, StartDeploy, Update, End

LEMMA BroadcastTold ==
  ASSUME LiveInv, NEW g \in Goroutines, Broadcast(g), UNCHANGED pageVars,
         ws # NoConn, Live(ws)', NEW a \in Apps, entries'[a] # NoEntry, ~Pending(a)'
  PROVE  Told(ws, entries[a])'
<1> USE HubAssumption DEF LiveInv, TypeInv
<1> DEFINE f == Head(outbox[g])
           e == entries[a]
<1>1. /\ ws \in Conns /\ Live(ws) /\ entries'[a] = e /\ e # NoEntry
      /\ ws' = ws /\ wire' = wire /\ stage' = stage /\ progress' = progress
      /\ chan[ws] \in Seq(Events) /\ chan'[ws] = Append(chan[ws], f)
  BY DEF Broadcast, Live, TypeOK, deployVars, pageVars
<1>2. f \in Events
  BY DEF Broadcast, TypeOK
<1>3. CASE Pending(a)
  <2>1. g = a
    BY <1>3 DEF Broadcast, TypeOK, Goroutines, Pending
  <2>2. Says(f, e)
    BY <1>1, <1>3, <2>1 DEF TrackerInv, Carries, Pending, Says
  <2> QED BY <1>1, <2>2, AppendSays DEF Told
<1>4. CASE ~Pending(a)
  <2>1. Told(ws, e)
    BY <1>1, <1>4 DEF ToldInv
  <2>2. ~About(f, e.job)
    <3>1. CASE g = Operator
      BY <1>2, <3>1 DEF Broadcast, TypeOK, TrackerInv, About, Events
    <3>2. CASE g = a
      BY <1>2, <1>4, <3>2 DEF Broadcast, Pending, About, Events
    <3>3. CASE g \in Apps \ {a}
      <4>1. PICK h \in Events : outbox[g] = <<h>> /\ Carries(g, h)
        BY <3>3 DEF Broadcast, TrackerInv
      <4> QED BY <1>1, <3>3, <4>1 DEF Carries, About, Events
    <3> QED BY <3>1, <3>2, <3>3 DEF Goroutines
  <2> QED BY <1>1, <2>1, <2>2, AppendElse DEF Told, Arriving, Shows
<1> QED BY <1>3, <1>4

LEMMA SessionTold ==
  ASSUME LiveInv, NEW c \in Conns, Session(c) \/ Faults(c), UNCHANGED pageVars,
         ws # NoConn, Live(ws)', NEW a \in Apps, entries'[a] # NoEntry, ~Pending(a)'
  PROVE  Told(ws, entries[a])'
<1> USE DEF LiveInv, TypeInv
<1> DEFINE e == entries[a]
<1>1. /\ entries' = entries /\ outbox' = outbox /\ ws' = ws /\ progress' = progress
      /\ ws \in Conns /\ e \in Entry /\ ~Pending(a)
  BY DEF Session, Serve, AddClient, WriteInitial, Forward, SeeClosed, NoticeLoss, RemoveClient, Leave,
         Faults, Cut, WriteTimesOut, deployVars, pageVars, TypeOK, Pending
<1>2. CASE AddClient(c)
  <2>1. CASE c = ws
    BY <1>1, <1>2, <2>1 DEF AddClient, Goto, EmptyInv, Told, Silent, TypeOK
  <2>2. CASE c # ws
    BY <1>1, <1>2, <2>2 DEF AddClient, Goto, ToldInv, Live, Told, Arriving, Shows, TypeOK
  <2> QED BY <2>1, <2>2
<1>3. CASE WriteInitial(c)
  <2>1. CASE c = ws
    <3>1. Told(ws, e) /\ stage[ws] = "added" /\ chan' = chan
      BY <1>1, <1>3, <2>1 DEF WriteInitial, ToldInv, Live, TypeOK
    <3>2. Says(SnapshotFrame, e)
      BY DEF Says, SnapshotFrame, TrackerInv
    <3>3. Tells(wire'[ws], e)
      BY <1>3, <2>1, <3>2, AppendSays DEF WriteInitial, TypeOK
    <3> QED BY <1>1, <3>1, <3>3 DEF Told, Arriving
  <2>2. CASE c # ws
    BY <1>1, <1>3, <2>2 DEF WriteInitial, Goto, ToldInv, Live, Told, Arriving, Shows, TypeOK
  <2> QED BY <2>1, <2>2
<1>4. CASE Forward(c)
  <2>1. CASE c = ws
    <3>1. /\ Told(ws, e) /\ stage[ws] = "streaming" /\ stage' = stage
          /\ chan[ws] \in Seq(Events) /\ chan[ws] # <<>> /\ wire[ws] \in Seq(Frames)
          /\ chan'[ws] = Tail(chan[ws]) /\ wire'[ws] = Append(wire[ws], Head(chan[ws]))
      BY <1>1, <1>4, <2>1 DEF Forward, ToldInv, Live, TypeOK
    <3>2. CASE Tells(chan[ws], e)
      <4>1. CASE Tells(Tail(chan[ws]), e)
        BY <1>1, <3>1, <4>1 DEF Told
      <4>2. CASE Says(Head(chan[ws]), e) /\ Silent(Tail(chan[ws]), e.job)
        BY <1>1, <3>1, <4>2, AppendSays DEF Told, Arriving
      <4> QED BY <3>1, <3>2, <4>1, <4>2, TailTells
    <3>3. CASE Silent(chan[ws], e.job) /\ Arriving(ws, e)
      <4>1. ~About(Head(chan[ws]), e.job) /\ Silent(Tail(chan[ws]), e.job)
        BY <3>1, <3>3, TailTells
      <4>2. Arriving(ws, e)'
        BY <1>1, <3>1, <3>3, <4>1, AppendElse DEF Arriving, Shows
      <4> QED BY <1>1, <3>1, <4>1, <4>2 DEF Told, Arriving
    <3> QED BY <3>1, <3>2, <3>3 DEF Told
  <2>2. CASE c # ws
    BY <1>1, <1>4, <2>2 DEF Forward, ToldInv, Live, Told, Arriving, Shows, TypeOK
  <2> QED BY <2>1, <2>2
<1>5. CASE SeeClosed(c) \/ NoticeLoss(c) \/ RemoveClient(c) \/ Leave(c) \/ Cut(c) \/ WriteTimesOut(c)
  <2>1. c # ws
    BY <1>1, <1>5 DEF SeeClosed, NoticeLoss, RemoveClient, Leave, Cut, WriteTimesOut, Goto, Live, TypeOK
  <2> QED
    BY <1>1, <1>5, <2>1 DEF SeeClosed, NoticeLoss, RemoveClient, Leave, Cut, WriteTimesOut, Goto,
                            ToldInv, Live, Told, Arriving, Shows, TypeOK
<1> QED BY <1>2, <1>3, <1>4, <1>5 DEF Session, Serve, Faults

LEMMA OnMessageTold ==
  ASSUME LiveInv, OnMessage, Live(ws), NEW a \in Apps, entries[a] # NoEntry, ~Pending(a)
  PROVE  Told(ws, entries[a])'
<1> USE DEF LiveInv, TypeInv
<1> DEFINE e == entries[a]
           f == Head(wire[ws])
<1>1. ws \in Conns
  BY DEF OnMessage, ConnectedInv, TypeOK
<1>2. /\ ws' = ws /\ entries' = entries /\ chan' = chan /\ stage' = stage
      /\ wire[ws] \in Seq(Frames) /\ wire[ws] # <<>> /\ wire'[ws] = Tail(wire[ws])
      /\ progress' = Taken(f) /\ e \in Entry /\ Told(ws, e)
  BY <1>1 DEF OnMessage, deployVars, TypeOK, ToldInv, ConnectedInv
<1>3. f \in Frames /\ e.job \in JobIds
  BY <1>2 DEF Entry
<1>4. Says(f, e) => Shows(e)'
  BY <1>2, <1>3, TakenShows DEF Shows
<1>5. ~About(f, e.job) /\ Shows(e) => Shows(e)'
  BY <1>2, <1>3, TakenElse DEF Shows
<1>6. Arriving(ws, e) => Arriving(ws, e)'
  BY <1>2, <1>4, <1>5, TailTells DEF Arriving
<1> QED BY <1>2, <1>6 DEF Told

LEMMA ToldStep == LiveInv /\ [Next]_vars => ToldInv'
<1> SUFFICES ASSUME LiveInv, [Next]_vars, (ws # NoConn /\ Live(ws))',
                    NEW a \in Apps, entries'[a] # NoEntry, ~Pending(a)'
             PROVE  Told(ws, entries[a])'
  BY DEF ToldInv
<1> USE DEF LiveInv
<1>1. CASE UNCHANGED <<hubVars, ws, progress>>
  BY <1>1 DEF hubVars, deployVars, connVars, ToldInv, Live, Pending, Told, Arriving, Shows
<1>2. CASE Deploys /\ UNCHANGED pageVars
  BY <1>2, DeploysPending, DeploysType
     DEF TypeInv, DeployTypes, connVars, pageVars, ToldInv, Live, Told, Arriving, Shows
<1>3. ASSUME NEW g \in Goroutines, Broadcast(g), UNCHANGED pageVars PROVE Told(ws, entries[a])'
  BY <1>3, BroadcastTold DEF pageVars
<1>4. ASSUME NEW c \in Conns, Session(c) \/ Faults(c), UNCHANGED pageVars PROVE Told(ws, entries[a])'
  BY <1>4, SessionTold DEF pageVars
<1>5. ASSUME NEW c \in Conns, Connect(c) PROVE FALSE
  BY <1>5 DEF Connect, Goto, Live, TypeInv, TypeOK
<1>6. CASE OnMessage
  <2>1. UNCHANGED <<entries, outbox, ws, clients, link, stage>>
    BY <1>6 DEF OnMessage, deployVars
  <2>2. Live(ws) /\ entries[a] # NoEntry /\ ~Pending(a)
    BY <2>1 DEF Live, Pending
  <2> QED BY <1>6, <2>2, OnMessageTold
<1>7. CASE OnClose \/ Unmount
  BY <1>7 DEF OnClose, Unmount
<1> QED BY <1>1, <1>2, <1>3, <1>4, <1>5, <1>6, <1>7 DEF Next, Page, OnOpen, vars, pageVars

(* When everything on its way has arrived, the badge of every job says     *)
(* what the tracker holds, whatever the page missed before it joined, in   *)
(* whatever order its snapshot and the events came.                        *)
THEOREM PageIsCaughtUp == Spec => []CaughtUp
<1>1. Init => LiveInv
  <2> SUFFICES ASSUME Init PROVE LiveInv
    OBVIOUS
  <2>1. TypeInv
    BY LiveInit
  <2>2. \A a \in Apps : outbox[a] = <<>> /\ entries[a] = NoEntry
    BY DEF Init, Goroutines
  <2>3. outbox[Operator] = <<>>
    BY DEF Init, Goroutines
  <2> QED BY <2>1, <2>2, <2>3
          DEF Init, LiveInv, TrackerInv, OneEach, ClientsInv, ClientIsOpen, Stages, EmptyInv, ToldInv
<1>2. LiveInv /\ [Next]_vars => LiveInv'
  BY TypeStep, TrackerStep, ClientsStep, EmptyStep, ToldStep DEF LiveInv
<1>3. LiveInv => CaughtUp
  <2> SUFFICES ASSUME LiveInv, connected, Streaming(ws), Drained(ws), NEW a \in Apps,
                      outbox[a] = <<>>, entries[a] # NoEntry
               PROVE  Shows(entries[a])
    BY DEF CaughtUp, Agrees
  <2>1. ws # NoConn /\ Live(ws) /\ ~Pending(a)
    BY DEF LiveInv, TypeInv, ConnectedInv, Streaming, Live, Pending
  <2>2. Told(ws, entries[a])
    BY <2>1 DEF LiveInv, ToldInv
  <2> QED BY <2>2 DEF Told, Arriving, Tells, Streaming, Drained
<1> QED BY <1>1, <1>2, <1>3, PTL DEF Spec

-----------------------------------------------------------------------------

(* What HubForgets rests on: a goroutine that serves a connection the hub  *)
(* has dropped finds its channel closed, once it has forwarded the rest.   *)
DroppedAreTold ==
  \A c \in Conns : stage[c] \in {"added", "streaming"} /\ c \notin clients => closes[c] = 1

LEMMA DroppedStep == ClientsInv /\ DroppedAreTold /\ [Next]_vars => DroppedAreTold'
<1> SUFFICES ASSUME ClientsInv, DroppedAreTold, [Next]_vars PROVE DroppedAreTold'
  OBVIOUS
<1> USE DEF ClientsInv, DroppedAreTold, Stages
<1>1. CASE UNCHANGED <<stage, clients, closes>>
  BY <1>1
<1>2. CASE Deploys
  BY <1>1, <1>2 DEF Deploys, StartDeploy, Update, Stop, End, Cleanup, RequestCancel, connVars
<1>3. ASSUME NEW g \in Goroutines, Broadcast(g) PROVE DroppedAreTold'
  BY <1>3 DEF Broadcast, Close
<1>4. ASSUME NEW c \in Conns, Serve(c) PROVE DroppedAreTold'
  BY <1>4 DEF Serve, AddClient, WriteInitial, Goto
<1>5. ASSUME NEW c \in Conns, Forward(c) \/ Cut(c) PROVE DroppedAreTold'
  BY <1>1, <1>5 DEF Forward, Cut
<1>6. ASSUME NEW c \in Conns, SeeClosed(c) \/ NoticeLoss(c) \/ WriteTimesOut(c) PROVE DroppedAreTold'
  BY <1>6 DEF SeeClosed, NoticeLoss, WriteTimesOut, Goto
<1>7. ASSUME NEW c \in Conns, RemoveClient(c) PROVE DroppedAreTold'
  BY <1>7 DEF RemoveClient, Goto
<1>8. ASSUME NEW c \in Conns, Leave(c) PROVE DroppedAreTold'
  BY <1>8 DEF Leave, Close, Goto
<1>9. ASSUME NEW c \in Conns, Connect(c) PROVE DroppedAreTold'
  BY <1>9 DEF Connect, Goto
<1>10. CASE OnOpen \/ OnMessage \/ OnClose \/ Unmount
  BY <1>1, <1>10 DEF OnOpen, OnMessage, OnClose, Unmount, hubVars, connVars
<1>11. CASE UNCHANGED vars
  BY <1>1, <1>11 DEF vars, hubVars, connVars
<1> QED BY <1>2, <1>3, <1>4, <1>5, <1>6, <1>7, <1>8, <1>9, <1>10, <1>11 DEF Next, Session, Faults, Page

(* No connection is dropped without its goroutine being told, however the  *)
(* broadcasts that find its channel full and its own steps interleave: it  *)
(* never waits for events that nobody sends it any more.                   *)
THEOREM DroppedIsTold == Spec => []DroppedAreTold
<1>1. Init => ClientsInv /\ DroppedAreTold
  BY DEF Init, ClientsInv, ClientIsOpen, Stages, DroppedAreTold
<1> QED BY <1>1, ClientsStep, DroppedStep, PTL DEF Spec

(* What PageCatchesUp rests on: a mounted page has a socket or a scheduled *)
(* call of connect, and not both; one that is not has neither.             *)
PageDials ==
  /\ mounted => (timer <=> ws = NoConn)
  /\ ~mounted => ~timer /\ ws = NoConn
  /\ connected => ws # NoConn

LEMMA DialsStep == PageDials /\ [Next]_vars => PageDials'
<1> SUFFICES ASSUME PageDials, [Next]_vars PROVE PageDials'
  OBVIOUS
<1>1. CASE UNCHANGED <<mounted, ws, connected, timer>>
  BY <1>1 DEF PageDials
<1>2. ASSUME NEW c \in Conns, Connect(c) PROVE PageDials'
  BY <1>2, PageAssumption DEF Connect, PageDials
<1>3. CASE OnOpen \/ OnClose \/ Unmount
  BY <1>3 DEF OnOpen, OnClose, Unmount, PageDials
<1>4. OnMessage => UNCHANGED <<mounted, ws, connected, timer>>
  BY DEF OnMessage
<1> QED BY <1>1, <1>2, <1>3, <1>4 DEF Next, Page, vars, pageVars

(* A page neither gives up after it lost its connection, however often and *)
(* at whatever moment, nor dials while it has a socket; and it is silent   *)
(* once it is left.                                                        *)
THEOREM PageKeepsDialing == Spec => []PageDials
<1>1. Init => PageDials
  BY DEF Init, PageDials
<1> QED BY <1>1, DialsStep, PTL DEF Spec

=============================================================================
