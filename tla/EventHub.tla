------------------------------ MODULE EventHub ------------------------------
(***************************************************************************)
(* The server's side of live progress: the ProgressTracker                 *)
(* (internal/progress/progress_tracker.go), which keeps one entry per      *)
(* application, and the AdminEventHub (internal/admin/admin_events.go),    *)
(* which copies events to every connected page over a WebSocket.           *)
(*                                                                         *)
(* A goroutine changes an entry under the tracker's lock and broadcasts    *)
(* the copy it took after unlocking: outbox holds what it has yet to       *)
(* broadcast.  Broadcast fills one bounded channel per connection; the     *)
(* connection's own goroutine forwards the channel to the network.         *)
(*                                                                         *)
(* hello and heartbeat frames change nothing on the page and are left out; *)
(* that writing them may fail is part of NoticeLoss and WriteTimesOut.     *)
(***************************************************************************)
EXTENDS Integers, Sequences

CONSTANTS
  Apps, JobIds,
  Conns,      \* Identities of WebSocket connections; one that is gone is used again.
  Buffer,     \* Capacity of a connection's channel; 64 in the code.
  Window,     \* Bound: frames in the network before a write blocks.
  Chunks,     \* Bound: reports of one deploy.
  MaxCuts,    \* Bound: connections that fail for no reason of the program's.
  Operator,   \* The goroutine of the operator's cancel requests.
  NoJob, NoEntry

ASSUME HubAssumption ==
  /\ {Buffer, Window} \subseteq Nat \ {0} /\ {Chunks, MaxCuts} \subseteq Nat
  /\ Operator \notin Apps /\ NoJob \notin JobIds
  /\ NoEntry \notin [job : JobIds, phase : {"working", "succeeded", "failed"},
                     done : 0 .. Chunks]

VARIABLES
  entries,    \* ProgressTracker.entries: the entry of each application.
  working,    \* The job each application's deploy goroutine works on.
  unused,     \* Jobs that were not started yet, nor canceled before that.
  asked,      \* Jobs whose deploy was asked to stop.
  outbox,     \* What each goroutine has yet to broadcast.
  stage,      \* Where each connection's goroutine is in EventsWebSocket.
  clients,    \* AdminEventHub.clients.
  chan,       \* The channel of each client.
  closes,     \* How often each channel was closed; twice would panic.
  wire,       \* What the network carries to the page.
  link,       \* Whether each connection is up.
  cuts        \* Counts the failures, see MaxCuts.

deployVars == <<entries, working, unused, asked>>
connVars == <<stage, clients, chan, closes, wire, link, cuts>>
hubVars == <<deployVars, outbox, connVars>>

(* The phases from "queued" to "rollback" are one here.                    *)
Phases == {"working", "succeeded", "failed"}
Entry == [job : JobIds, phase : Phases, done : 0 .. Chunks]
Goroutines == Apps \cup {Operator}
Stages == {"gone", "accepted", "added", "streaming", "leaving", "removed"}

-----------------------------------------------------------------------------
(* What is broadcast.  The compact frame and the snapshot carry what the   *)
(* tracker holds.  The job of a cancel event is a field of the event; its  *)
(* payload has none.                                                       *)

ProgressFrame(e) == [kind |-> "p", entry |-> e]
SnapshotFrame == [kind |-> "snapshot", entries |-> entries]
CancelFrame(j) ==
  [kind |-> "cancel_requested", job |-> j, payloadJob |-> NoJob, status |-> "cancel_requested"]
StatusFrame(j) == [kind |-> "job_status", job |-> j, payloadJob |-> NoJob, status |-> "canceled"]

Events ==
  [kind : {"p"}, entry : Entry] \cup
  [kind : {"cancel_requested", "job_status"}, job : JobIds, payloadJob : {NoJob},
   status : {"cancel_requested", "canceled"}]
Snapshots == [kind : {"snapshot"}, entries : [Apps -> Entry \cup {NoEntry}]]
Frames == Events \cup Snapshots

-----------------------------------------------------------------------------
(* The tracker, called by the deploy goroutines and by Cleanup's ticker.   *)

Sets(a, e) ==
  /\ entries' = [entries EXCEPT ![a] = e]
  /\ outbox' = [outbox EXCEPT ![a] = Append(@, ProgressFrame(e))]

(* DeployArtifact's first call replaces whatever entry there was.          *)
StartDeploy(a, j) ==
  /\ working[a] = NoJob /\ j \in unused /\ outbox[a] = <<>>
  /\ working' = [working EXCEPT ![a] = j]
  /\ unused' = unused \ {j}
  /\ Sets(a, [job |-> j, phase |-> "working", done |-> 0])
  /\ UNCHANGED <<asked, connVars>>

(* Update's bytes and SetPhase's phases: what was done so far grows.       *)
Update(a) ==
  /\ working[a] # NoJob /\ outbox[a] = <<>> /\ entries[a].done < Chunks
  /\ Sets(a, [entries[a] EXCEPT !.done = @ + 1])
  /\ UNCHANGED <<working, unused, asked, connVars>>

(* tracker.Finish from the last phase, tracker.Fail from any.              *)
End(a, phase) ==
  /\ working[a] # NoJob /\ outbox[a] = <<>>
  /\ phase = "succeeded" => entries[a].done = Chunks
  /\ working' = [working EXCEPT ![a] = NoJob]
  /\ Sets(a, [entries[a] EXCEPT !.phase = phase])
  /\ UNCHANGED <<unused, asked, connVars>>

(* A checkpoint ends a canceled deploy: its job_status event is broadcast  *)
(* and its entry stays as it is.                                           *)
Stop(a) ==
  /\ working[a] \in asked /\ outbox[a] = <<>>
  /\ working' = [working EXCEPT ![a] = NoJob]
  /\ outbox' = [outbox EXCEPT ![a] = Append(@, StatusFrame(working[a]))]
  /\ UNCHANGED <<entries, unused, asked, connVars>>

(* Some finished entries are past their grace window; the rest are kept.   *)
Finished == {a \in Apps : entries[a] # NoEntry /\ entries[a].phase \in {"succeeded", "failed"}}
Cleanup ==
  \E A \in (SUBSET Finished) \ {{}} :
    /\ entries' = [a \in Apps |-> IF a \in A THEN NoEntry ELSE entries[a]]
    /\ UNCHANGED <<working, unused, asked, outbox, connVars>>

(* RequestJobCancel of a running job, and of one that never started.  Only *)
(* the first request is made: another broadcasts the same event again.     *)
RequestCancel(j) ==
  /\ outbox[Operator] = <<>>
  /\ \/ /\ j \in {working[a] : a \in Apps} \ asked
        /\ asked' = asked \cup {j}
        /\ outbox' = [outbox EXCEPT ![Operator] = <<CancelFrame(j)>>]
        /\ UNCHANGED unused
     \/ /\ j \in unused
        /\ unused' = unused \ {j}
        /\ outbox' = [outbox EXCEPT ![Operator] = <<CancelFrame(j), StatusFrame(j)>>]
        /\ UNCHANGED asked
  /\ UNCHANGED <<entries, working, connVars>>

-----------------------------------------------------------------------------
(* The hub.                                                                *)

(* Variant: close(c.send) without closeOnce.                               *)
CloseEachTime(S) == closes' = [c \in Conns |-> IF c \in S THEN closes[c] + 1 ELSE closes[c]]

(* adminEventClient.close, once per client.                                *)
Close(S) == closes' = [c \in Conns |-> IF c \in S THEN 1 ELSE closes[c]]

(* Under the hub's mutex: who has no room is dropped and its channel       *)
(* closed, which its goroutine finds once it has forwarded the rest.       *)
Broadcast(g) ==
  LET full == {c \in clients : Len(chan[c]) >= Buffer}
  IN  /\ outbox[g] # <<>>
      /\ outbox' = [outbox EXCEPT ![g] = Tail(@)]
      /\ chan' = [c \in Conns |-> IF c \in clients \ full THEN Append(chan[c], Head(outbox[g]))
                                                           ELSE chan[c]]
      /\ clients' = clients \ full
      /\ Close(full)
      /\ UNCHANGED <<deployVars, stage, wire, link, cuts>>

Goto(c, s) == stage' = [stage EXCEPT ![c] = s]

(* addClient first and writeInitialEvents second: what is broadcast in     *)
(* between waits in the channel.                                           *)
AddClient(c) ==
  /\ stage[c] = "accepted"
  /\ clients' = clients \cup {c}
  /\ Goto(c, "added")
  /\ UNCHANGED <<deployVars, outbox, chan, closes, wire, link, cuts>>

WriteInitial(c) ==
  /\ stage[c] = "added" /\ link[c]
  /\ wire' = [wire EXCEPT ![c] = Append(@, SnapshotFrame)]
  /\ Goto(c, "streaming")
  /\ UNCHANGED <<deployVars, outbox, clients, chan, closes, link, cuts>>

(* Variant: the initial events are written before the client is added.     *)
ServeSnapshotFirst(c) ==
  \/ /\ stage[c] = "accepted" /\ link[c]
     /\ wire' = [wire EXCEPT ![c] = Append(@, SnapshotFrame)]
     /\ Goto(c, "added")
     /\ UNCHANGED <<deployVars, outbox, clients, chan, closes, link, cuts>>
  \/ /\ stage[c] = "added"
     /\ clients' = clients \cup {c}
     /\ Goto(c, "streaming")
     /\ UNCHANGED <<deployVars, outbox, chan, closes, wire, link, cuts>>

Serve(c) == AddClient(c) \/ WriteInitial(c)

Forward(c) ==
  /\ stage[c] = "streaming" /\ link[c] /\ chan[c] # <<>> /\ Len(wire[c]) < Window
  /\ wire' = [wire EXCEPT ![c] = Append(@, Head(chan[c]))]
  /\ chan' = [chan EXCEPT ![c] = Tail(@)]
  /\ UNCHANGED <<deployVars, outbox, stage, clients, closes, link, cuts>>

(* The channel is closed and empty.                                        *)
SeeClosed(c) ==
  /\ stage[c] = "streaming" /\ chan[c] = <<>> /\ closes[c] > 0
  /\ Goto(c, "leaving")
  /\ UNCHANGED <<deployVars, outbox, clients, chan, closes, wire, link, cuts>>

(* Variant: only a failing write of an event ends the connection.          *)
NoticeLossByWrite(c) ==
  /\ stage[c] \in {"added", "streaming"} /\ ~link[c] /\ chan[c] # <<>>
  /\ Goto(c, "leaving")
  /\ UNCHANGED <<deployVars, outbox, clients, chan, closes, wire, link, cuts>>

(* CloseRead's context ends, or the next event or heartbeat cannot be      *)
(* written.                                                                *)
NoticeLoss(c) ==
  /\ stage[c] \in {"added", "streaming"} /\ ~link[c]
  /\ Goto(c, "leaving")
  /\ UNCHANGED <<deployVars, outbox, clients, chan, closes, wire, link, cuts>>

(* The page does not read for adminEventWriteTimeout.                      *)
WriteTimesOut(c) ==
  /\ stage[c] = "streaming" /\ link[c] /\ Len(wire[c]) = Window /\ cuts < MaxCuts
  /\ Goto(c, "leaving")
  /\ cuts' = cuts + 1
  /\ UNCHANGED <<deployVars, outbox, clients, chan, closes, wire, link>>

(* removeClient, the first deferred call: the map, then the channel.       *)
RemoveClient(c) ==
  /\ stage[c] = "leaving"
  /\ clients' = clients \ {c}
  /\ Goto(c, "removed")
  /\ UNCHANGED <<deployVars, outbox, chan, closes, wire, link, cuts>>

(* The channel, then CloseNow.  What is left in the channel is garbage.    *)
Leave(c) ==
  /\ stage[c] = "removed"
  /\ Close({c})
  /\ Goto(c, "gone")
  /\ chan' = [chan EXCEPT ![c] = <<>>]
  /\ UNCHANGED <<deployVars, outbox, clients, wire, link, cuts>>

(* The network fails, or a proxy drops the connection, which the page may  *)
(* learn before it is open.                                                *)
Cut(c) ==
  /\ stage[c] # "gone" /\ link[c] /\ cuts < MaxCuts
  /\ link' = [link EXCEPT ![c] = FALSE]
  /\ wire' = [wire EXCEPT ![c] = <<>>]
  /\ cuts' = cuts + 1
  /\ UNCHANGED <<deployVars, outbox, stage, clients, chan, closes>>

=============================================================================
